---- MODULE Spec2Model ----
(***************************************************************************)
(* MIHAC credit-approval inference engine: the decision pipeline           *)
(* (core/validator.py, core/scorer.py, core/engine.py).                    *)
(*                                                                         *)
(* Numbers.  A Python value is a record [t, n, s]:                         *)
(*   t = "int"    n is the integer                                        *)
(*   t = "float"  n is the value in hundredths (20000.01 is 2000001)      *)
(*   t = "dec4"   n is a float in ten-thousandths (the rounded DTI)       *)
(*   t = "nan" / "inf"   the non-finite floats nan and +inf               *)
(*   t = "str"    s is the text, a sequence of one-character strings      *)
(*   t = "bool"   True (n = 1) or False (n = 0): an int to isinstance     *)
(*   t = "none"   None;   t = "obj"  another object (the list [5])         *)
(***************************************************************************)
EXTENDS Integers, Sequences, FiniteSets, TLC

\* ------------------------------------------------------------------------
\* State (core/engine.py, InferenceEngine; core/scorer.py, ScoringEngine)
\* ------------------------------------------------------------------------
VARIABLES
    reglas,               \* ScoringEngine._reglas, loaded at construction
    total_evaluaciones,   \* InferenceEngine._total_evaluaciones
    aprobados,            \* _aprobados
    rechazados,           \* _rechazados
    revision_manual,      \* _revision_manual
    suma_scores,          \* _suma_scores
    suma_dti,             \* _suma_dti (ten-thousandths, or nan)
    log_escribible,       \* whether the log file can be written (environment)
    log,                  \* the lines of mihac_evaluations.log
    call,                 \* the last call made: [op, arg, res]
    hilos,                \* request threads sharing the engine: where each
                          \* one is in its evaluate call
    archivos,             \* knowledge/weights.json and its backup on disk
    cal_weights,          \* WeightCalibrator._weights, loaded at construction
    aprobacion,           \* whether the user has approved the proposals
    main,                 \* run_calibration.main: its position and locals
    anteriores            \* history: the weights files overwritten so far

vars == <<reglas, total_evaluaciones, aprobados, rechazados, revision_manual,
          suma_scores, suma_dti, log_escribible, log, call, hilos, archivos,
          cal_weights, aprobacion, main, anteriores>>

\* ------------------------------------------------------------------------
\* Python values
\* ------------------------------------------------------------------------
NoneV == [t |-> "none", n |-> 0, s |-> <<>>]
NanV == [t |-> "nan", n |-> 0, s |-> <<>>]
InfV == [t |-> "inf", n |-> 0, s |-> <<>>]
ObjV == [t |-> "obj", n |-> 0, s |-> <<>>]
TrueV == [t |-> "bool", n |-> 1, s |-> <<>>]
IntV(k) == [t |-> "int", n |-> k, s |-> <<>>]
FloatV(h) == [t |-> "float", n |-> h, s |-> <<>>]
Dec4V(q) == [t |-> "dec4", n |-> q, s |-> <<>>]
StrV(cs) == [t |-> "str", n |-> 0, s |-> cs]

IsInt(v) == v.t \in {"int", "bool"}
IsFloat(v) == v.t \in {"float", "dec4", "nan", "inf"}
IsNum(v) == IsInt(v) \/ IsFloat(v)
IsStr(v) == v.t = "str"
IsNone(v) == v.t = "none"
IsFinite(v) == v.t \in {"int", "bool", "float", "dec4"}

\* decimal exponent of the unit in which n is held
Escala(v) == CASE v.t \in {"int", "bool"} -> 0 [] v.t = "float" -> 2 [] OTHER -> 4

Pow10(e) == CASE e = 0 -> 1 [] e = 1 -> 10 [] e = 2 -> 100
              [] e = 3 -> 1000 [] OTHER -> 10000

Max2(a, b) == IF a >= b THEN a ELSE b
Min2(a, b) == IF a <= b THEN a ELSE b

\* Python's ordering of two numbers: "lt", "eq", "gt", or "un" (a nan is
\* unordered: every comparison with it except != is False)
Cmp(a, b) ==
    IF a.t = "nan" \/ b.t = "nan" THEN "un"
    ELSE IF a.t = "inf" THEN (IF b.t = "inf" THEN "eq" ELSE "gt")
    ELSE IF b.t = "inf" THEN "lt"
    ELSE LET e == Max2(Escala(a), Escala(b))
             x == a.n * Pow10(e - Escala(a))
             y == b.n * Pow10(e - Escala(b))
         IN  IF x < y THEN "lt" ELSE IF x = y THEN "eq" ELSE "gt"

Lt(a, b) == Cmp(a, b) = "lt"
Le(a, b) == Cmp(a, b) \in {"lt", "eq"}
Gt(a, b) == Cmp(a, b) = "gt"
Ge(a, b) == Cmp(a, b) \in {"gt", "eq"}

\* a * k for a float a and a positive integer k
MulInt(a, k) == IF IsFinite(a) THEN [a EXCEPT !.n = a.n * k] ELSE a
\* a - k for an int a
SubInt(a, k) == IntV(a.n - k)

\* ------------------------------------------------------------------------
\* Text
\* ------------------------------------------------------------------------
Digitos == <<"0", "1", "2", "3", "4", "5", "6", "7", "8", "9">>
EsDigito(c) == \E i \in 1..10 : Digitos[i] = c
ValorDigito(c) == (CHOOSE i \in 1..10 : Digitos[i] = c) - 1

Minusculas == <<"a", "c", "d", "e", "f", "i", "m", "n", "p", "q", "r", "t", "v">>
Mayusculas == <<"A", "C", "D", "E", "F", "I", "M", "N", "P", "Q", "R", "T", "V">>
\* str.upper() of one character
Upper(c) == IF \E i \in 1..Len(Minusculas) : Minusculas[i] = c
            THEN Mayusculas[CHOOSE i \in 1..Len(Minusculas) : Minusculas[i] = c]
            ELSE c

RECURSIVE LStrip(_)
LStrip(cs) == IF cs # <<>> /\ Head(cs) = " " THEN LStrip(Tail(cs)) ELSE cs
RECURSIVE RStrip(_)
RStrip(cs) == IF cs # <<>> /\ cs[Len(cs)] = " "
              THEN RStrip(SubSeq(cs, 1, Len(cs) - 1)) ELSE cs
\* str.strip()
Strip(cs) == RStrip(LStrip(cs))

\* re.sub(r'[^\d.\-]', '', valor)
SoloNumerico(cs) == SelectSeq(cs, LAMBDA c : EsDigito(c) \/ c = "." \/ c = "-")

RECURSIVE ValorEntero(_)
ValorEntero(ds) == IF ds = <<>> THEN 0
                   ELSE ValorEntero(SubSeq(ds, 1, Len(ds) - 1)) * 10
                        + ValorDigito(ds[Len(ds)])

PosPunto(cs) == IF \E i \in 1..Len(cs) : cs[i] = "."
                THEN CHOOSE i \in 1..Len(cs) : cs[i] = "." /\ \A j \in 1..(i - 1) : cs[j] # "."
                ELSE 0

\* float(limpio) on a text of digits, '.' and '-': ok is FALSE where Python
\* raises ValueError; h is the value in hundredths (texts carry at most two
\* decimals)
ParseFloat(cs) ==
    LET neg == cs # <<>> /\ Head(cs) = "-"
        body == IF neg THEN Tail(cs) ELSE cs
        p == PosPunto(body)
        ent == IF p = 0 THEN body ELSE SubSeq(body, 1, p - 1)
        frac == IF p = 0 THEN <<>> ELSE SubSeq(body, p + 1, Len(body))
        bien == /\ \A i \in 1..Len(ent) : EsDigito(ent[i])
                /\ \A i \in 1..Len(frac) : EsDigito(frac[i])
                /\ Len(ent) + Len(frac) > 0
        f2 == IF Len(frac) = 0 THEN 0
              ELSE IF Len(frac) = 1 THEN ValorDigito(frac[1]) * 10
              ELSE ValorDigito(frac[1]) * 10 + ValorDigito(frac[2])
        mag == ValorEntero(ent) * 100 + f2
    IN  [ok |-> bien, h |-> IF ~bien THEN 0 ELSE IF neg THEN 0 - mag ELSE mag]

\* int(x) of a float held in hundredths: truncation toward zero
Trunc100(h) == IF h >= 0 THEN h \div 100 ELSE 0 - ((0 - h) \div 100)

RECURSIVE DigitosDe(_)
DigitosDe(k) == IF k < 10 THEN <<Digitos[k + 1]>>
                ELSE DigitosDe(k \div 10) \o <<Digitos[(k % 10) + 1]>>

\* str(valor)
StrDe(v) ==
    CASE v.t = "str" -> v.s
      [] v.t = "none" -> <<"N", "o", "n", "e">>
      [] v.t = "nan" -> <<"n", "a", "n">>
      [] v.t = "inf" -> <<"i", "n", "f">>
      [] v.t = "int" -> IF v.n < 0 THEN <<"-">> \o DigitosDe(0 - v.n)
                        ELSE DigitosDe(v.n)
      [] v.t = "bool" -> IF v.n = 1 THEN <<"T", "r", "u", "e">>
                         ELSE <<"F", "a", "l", "s", "e">>
      [] v.t = "obj" -> <<"[", "5", "]">>
      [] OTHER ->
           LET m == IF v.n < 0 THEN 0 - v.n ELSE v.n
               f == m % 100
               dec == IF f % 10 = 0 THEN <<Digitos[(f \div 10) + 1]>>
                      ELSE <<Digitos[(f \div 10) + 1], Digitos[(f % 10) + 1]>>
           IN  (IF v.n < 0 THEN <<"-">> ELSE <<>>)
               \o DigitosDe(m \div 100) \o <<".">> \o dec

\* ------------------------------------------------------------------------
\* core/validator.py
\* ------------------------------------------------------------------------
CAMPOS_REQUERIDOS ==
    <<"edad", "ingreso_mensual", "total_deuda_actual",
      "historial_crediticio", "antiguedad_laboral",
      "numero_dependientes", "tipo_vivienda",
      "proposito_credito", "monto_credito">>

CAMPOS_ENTEROS ==
    <<"edad", "historial_crediticio", "antiguedad_laboral",
      "numero_dependientes">>

CAMPOS_NUMERICOS == <<"ingreso_mensual", "total_deuda_actual", "monto_credito">>

CAMPOS_TEXTO == <<"tipo_vivienda", "proposito_credito">>

Rango(seq) == {seq[i] : i \in 1..Len(seq)}

Propia == <<"P", "r", "o", "p", "i", "a">>
Familiar == <<"F", "a", "m", "i", "l", "i", "a", "r">>
Rentada == <<"R", "e", "n", "t", "a", "d", "a">>
TIPOS_VIVIENDA_VALIDOS == {Propia, Familiar, Rentada}

Negocio == <<"N", "e", "g", "o", "c", "i", "o">>
Educacion == <<"E", "d", "u", "c", "a", "c", "i", "o", "n">>
Consumo == <<"C", "o", "n", "s", "u", "m", "o">>
Emergencia == <<"E", "m", "e", "r", "g", "e", "n", "c", "i", "a">>
Vacaciones == <<"V", "a", "c", "a", "c", "i", "o", "n", "e", "s">>
PROPOSITOS_VALIDOS == {Negocio, Educacion, Consumo, Emergencia, Vacaciones}

\* dict.get(campo): None when the key is absent
Get(datos, campo) == IF campo \in DOMAIN datos THEN datos[campo] ELSE NoneV

\* _a_entero raises on a non-finite float (int(nan), int(inf))
a_entero_raises(valor) == valor.t \in {"nan", "inf"}

a_entero(valor) ==
    IF IsInt(valor) THEN valor
    ELSE IF valor.t \in {"float", "dec4"}
    THEN (IF valor.n % Pow10(Escala(valor)) = 0
          THEN IntV(valor.n \div Pow10(Escala(valor))) ELSE valor)
    ELSE IF IsStr(valor)
    THEN LET p == ParseFloat(SoloNumerico(valor.s))
         IN  IF p.ok THEN IntV(Trunc100(p.h)) ELSE valor
    ELSE valor

a_flotante(valor) ==
    IF IsInt(valor) THEN FloatV(valor.n * 100)
    ELSE IF IsFloat(valor) THEN valor
    ELSE IF IsStr(valor)
    THEN LET p == ParseFloat(SoloNumerico(valor.s))
         IN  IF p.ok THEN FloatV(p.h) ELSE valor
    ELSE valor

capitalizar(texto) ==
    LET t == Strip(texto)
    IN  IF t # <<>> THEN <<Upper(Head(t))>> \o Tail(t) ELSE t

\* sanitize: the value stored for one field
sanitize_campo(campo, valor0) ==
    LET valor == IF IsStr(valor0) THEN StrV(Strip(valor0.s)) ELSE valor0
    IN  IF campo \in Rango(CAMPOS_ENTEROS) THEN a_entero(valor)
        ELSE IF campo \in Rango(CAMPOS_NUMERICOS) THEN a_flotante(valor)
        ELSE IF campo = "tipo_vivienda" THEN StrV(capitalizar(StrDe(valor)))
        ELSE IF campo = "proposito_credito" THEN StrV(capitalizar(StrDe(valor)))
        ELSE valor

\* an argument that is a dict: its keys are field names, never a value's parts
es_dict(datos) == "t" \notin DOMAIN datos

\* datos.items() raises on an argument that is no dict
sanitize_raises(datos) ==
    \/ ~es_dict(datos)
    \/ \E campo \in DOMAIN datos :
           campo \in Rango(CAMPOS_ENTEROS) /\ a_entero_raises(datos[campo])

sanitize(datos) == [campo \in DOMAIN datos |-> sanitize_campo(campo, datos[campo])]

\* the messages appended for the fields of lista that satisfy malo, in order
PorCampo(lista, malo(_), msg(_)) ==
    LET sel == SelectSeq(lista, malo)
    IN  [i \in 1..Len(sel) |-> msg(sel[i])]

\* Grupo A
validar_campos_obligatorios(datos) ==
    PorCampo(CAMPOS_REQUERIDOS,
             LAMBDA c : c \notin DOMAIN datos,
             LAMBDA c : <<"A001", c>>)

\* Grupo B
validar_tipos(datos) ==
    PorCampo(CAMPOS_ENTEROS,
             LAMBDA c : ~IsNone(Get(datos, c)) /\ ~IsInt(Get(datos, c)),
             LAMBDA c : <<"B001", c>>)
    \o PorCampo(CAMPOS_NUMERICOS,
             LAMBDA c : ~IsNone(Get(datos, c)) /\ ~IsNum(Get(datos, c)),
             LAMBDA c : <<"B002", c>>)
    \o PorCampo(CAMPOS_TEXTO,
             LAMBDA c : ~IsNone(Get(datos, c)) /\ ~IsStr(Get(datos, c)),
             LAMBDA c : <<"B003", c>>)

tipos_correctos(datos) ==
    /\ \A c \in Rango(CAMPOS_ENTEROS) : IsNone(Get(datos, c)) \/ IsInt(Get(datos, c))
    /\ \A c \in Rango(CAMPOS_NUMERICOS) : IsNone(Get(datos, c)) \/ IsNum(Get(datos, c))
    /\ \A c \in Rango(CAMPOS_TEXTO) : IsNone(Get(datos, c)) \/ IsStr(Get(datos, c))

Si(cond, cod) == IF cond THEN <<<<cod, "">>>> ELSE <<>>

\* variant for C10: range checks that stop at the first violation
validar_rangos_primero(datos) ==
    LET edad == Get(datos, "edad")
        ingreso == Get(datos, "ingreso_mensual")
        deuda == Get(datos, "total_deuda_actual")
        hist == Get(datos, "historial_crediticio")
        antig == Get(datos, "antiguedad_laboral")
        deps == Get(datos, "numero_dependientes")
        viv == Get(datos, "tipo_vivienda")
        prop == Get(datos, "proposito_credito")
        monto == Get(datos, "monto_credito")
    IN  IF IsInt(edad) /\ (Lt(edad, IntV(18)) \/ Gt(edad, IntV(99)))
        THEN Si(TRUE, "C001")
        ELSE IF IsNum(ingreso) /\ Le(ingreso, IntV(0)) THEN Si(TRUE, "C002")
        ELSE IF IsNum(deuda) /\ Lt(deuda, IntV(0)) THEN Si(TRUE, "C003")
        ELSE IF IsInt(hist) /\ hist.n \notin {0, 1, 2} THEN Si(TRUE, "C004")
        ELSE IF IsInt(antig) /\ (Lt(antig, IntV(0)) \/ Gt(antig, IntV(40)))
        THEN Si(TRUE, "C005")
        ELSE IF IsInt(deps) /\ (Lt(deps, IntV(0)) \/ Gt(deps, IntV(10)))
        THEN Si(TRUE, "C006")
        ELSE IF IsStr(viv) /\ viv.s \notin TIPOS_VIVIENDA_VALIDOS
        THEN Si(TRUE, "C007")
        ELSE IF IsStr(prop) /\ prop.s \notin PROPOSITOS_VALIDOS
        THEN Si(TRUE, "C008")
        ELSE Si(IsNum(monto) /\ (Lt(monto, IntV(500)) \/ Gt(monto, IntV(50000))),
                "C009")

\* Grupo C
validar_rangos(datos) ==
    LET edad == Get(datos, "edad")
        ingreso == Get(datos, "ingreso_mensual")
        deuda == Get(datos, "total_deuda_actual")
        hist == Get(datos, "historial_crediticio")
        antig == Get(datos, "antiguedad_laboral")
        deps == Get(datos, "numero_dependientes")
        viv == Get(datos, "tipo_vivienda")
        prop == Get(datos, "proposito_credito")
        monto == Get(datos, "monto_credito")
    IN  Si(IsInt(edad) /\ (Lt(edad, IntV(18)) \/ Gt(edad, IntV(99))), "C001")
        \o Si(IsNum(ingreso) /\ Le(ingreso, IntV(0)), "C002")
        \o Si(IsNum(deuda) /\ Lt(deuda, IntV(0)), "C003")
        \o Si(IsInt(hist) /\ hist.n \notin {0, 1, 2}, "C004")
        \o Si(IsInt(antig) /\ (Lt(antig, IntV(0)) \/ Gt(antig, IntV(40))), "C005")
        \o Si(IsInt(deps) /\ (Lt(deps, IntV(0)) \/ Gt(deps, IntV(10))), "C006")
        \o Si(IsStr(viv) /\ viv.s \notin TIPOS_VIVIENDA_VALIDOS, "C007")
        \o Si(IsStr(prop) /\ prop.s \notin PROPOSITOS_VALIDOS, "C008")
        \o Si(IsNum(monto) /\ (Lt(monto, IntV(500)) \/ Gt(monto, IntV(50000))), "C009")

\* Grupo D
validar_coherencia(datos) ==
    LET edad == Get(datos, "edad")
        antig == Get(datos, "antiguedad_laboral")
        ingreso == Get(datos, "ingreso_mensual")
        deuda == Get(datos, "total_deuda_actual")
        monto == Get(datos, "monto_credito")
    IN  Si(IsInt(edad) /\ IsInt(antig) /\ Gt(antig, SubInt(edad, 15)), "D001")
        \o Si(IsNum(ingreso) /\ IsNum(deuda) /\ Gt(ingreso, IntV(0))
              /\ Gt(deuda, MulInt(ingreso, 24)), "D002")
        \o Si(IsNum(ingreso) /\ IsNum(monto) /\ Gt(ingreso, IntV(0))
              /\ Gt(monto, MulInt(ingreso, 18)), "D003")

\* variant for C11: validation that runs the four groups whatever the first
\* two find
validate_sin_cortes(datos) ==
    LET errores == validar_campos_obligatorios(datos) \o validar_tipos(datos)
                   \o validar_rangos(datos) \o validar_coherencia(datos)
    IN  [valido |-> errores = <<>>, errores |-> errores]

\* validate(datos) -> (valido, errores)
validate(datos) ==
    LET a == validar_campos_obligatorios(datos)
        b == validar_tipos(datos)
        cd == b \o validar_rangos(datos) \o validar_coherencia(datos)
    IN  IF ~(\A c \in Rango(CAMPOS_REQUERIDOS) : c \in DOMAIN datos)
        THEN [valido |-> FALSE, errores |-> a]
        ELSE IF ~tipos_correctos(datos)
        THEN [valido |-> (a \o b) = <<>>, errores |-> a \o b]
        ELSE [valido |-> (a \o cd) = <<>>, errores |-> a \o cd]

\* ------------------------------------------------------------------------
\* core/scorer.py
\* ------------------------------------------------------------------------
\* dict.get(campo, defecto)
GetDef(datos, campo, defecto) == IF campo \in DOMAIN datos THEN datos[campo] ELSE defecto

\* round(num / den, 4) in ten-thousandths, for integers num and den > 0:
\* long division digit by digit, then round-half-even on the remainder
RoundDiv4(num, den) ==
    LET m == IF num < 0 THEN 0 - num ELSE num
        q0 == m \div den
        r0 == m % den
        d1 == (r0 * 10) \div den
        r1 == (r0 * 10) % den
        d2 == (r1 * 10) \div den
        r2 == (r1 * 10) % den
        d3 == (r2 * 10) \div den
        r3 == (r2 * 10) % den
        d4 == (r3 * 10) \div den
        r4 == (r3 * 10) % den
        q == q0 * 10000 + d1 * 1000 + d2 * 100 + d3 * 10 + d4
        up == 2 * r4 > den \/ (2 * r4 = den /\ q % 2 = 1)
        a == IF up THEN q + 1 ELSE q
    IN  IF num < 0 THEN 0 - a ELSE a

\* calculate_dti raises TypeError on an operand that is not a number
calculate_dti_raises(ingreso, deuda) ==
    ~IsNum(ingreso) \/ (~Le(ingreso, IntV(0)) /\ ~IsNum(deuda))

\* variant for C5: boundaries that belong to the lower tier
clasificar_dti_inclusivo(dti) ==
    IF Le(dti, FloatV(25)) THEN "BAJO"
    ELSE IF Le(dti, FloatV(40)) THEN "MODERADO"
    ELSE IF Le(dti, FloatV(60)) THEN "ALTO"
    ELSE "CRITICO"

clasificar_dti(dti) ==
    IF Lt(dti, FloatV(25)) THEN "BAJO"
    ELSE IF Lt(dti, FloatV(40)) THEN "MODERADO"
    ELSE IF Lt(dti, FloatV(60)) THEN "ALTO"
    ELSE "CRITICO"

\* deuda / ingreso rounded to 4 decimals, for ingreso not <= 0
dti_ratio(ingreso, deuda) ==
    IF ingreso.t = "nan" \/ deuda.t = "nan" THEN NanV
    ELSE IF ingreso.t = "inf" THEN (IF deuda.t = "inf" THEN NanV ELSE Dec4V(0))
    ELSE IF deuda.t = "inf" THEN InfV
    ELSE LET e == Max2(Escala(ingreso), Escala(deuda))
         IN  Dec4V(RoundDiv4(deuda.n * Pow10(e - Escala(deuda)),
                             ingreso.n * Pow10(e - Escala(ingreso))))

calculate_dti(ingreso, deuda) ==
    IF Le(ingreso, IntV(0)) THEN [dti |-> Dec4V(10000), clasif |-> "CRITICO"]
    ELSE LET dti == dti_ratio(ingreso, deuda)
         IN  [dti |-> dti, clasif |-> clasificar_dti(dti)]

score_solvencia_raises(datos, dti) ==
    \/ ~IsNum(GetDef(datos, "ingreso_mensual", IntV(0)))
    \/ ~IsNum(dti)
    \/ ~IsNum(GetDef(datos, "numero_dependientes", IntV(0)))

\* int(max(0, min(40, base + ajuste_dti - deps * 1.5))), computed exactly
\* over the common denominator 3000 * 10^e (e the scale of ingreso)
score_solvencia(datos, dti) ==
    LET ingreso == GetDef(datos, "ingreso_mensual", IntV(0))
        deps == GetDef(datos, "numero_dependientes", IntV(0))
        ajuste_dti == IF Lt(dti, FloatV(25)) THEN 10
                      ELSE IF Lt(dti, FloatV(40)) THEN 5
                      ELSE IF Lt(dti, FloatV(60)) THEN 0 - 5
                      ELSE 0 - 15
        den == 3000 * Pow10(Escala(ingreso))
        base == IF ingreso.t = "inf" \/ ingreso.n * 2 >= 20 * den
                THEN 20 * den ELSE ingreso.n * 2
        total == base + ajuste_dti * den - deps.n * (den \div 2) * 3
    IN  IF ingreso.t = "nan" THEN 40
        ELSE IF total <= 0 THEN 0
        ELSE IF total >= 40 * den THEN 40
        ELSE total \div den

score_estabilidad_raises(datos) == ~IsNum(GetDef(datos, "antiguedad_laboral", IntV(0)))

score_estabilidad(datos) ==
    LET antig == GetDef(datos, "antiguedad_laboral", IntV(0))
        vivienda == GetDef(datos, "tipo_vivienda", StrV(<<>>))
        pts_antig == IF Lt(antig, IntV(1)) THEN 0
                     ELSE IF Lt(antig, IntV(2)) THEN 8
                     ELSE IF Lt(antig, IntV(5)) THEN 18
                     ELSE 28
        pts_viv == IF vivienda = StrV(Propia) THEN 8
                   ELSE IF vivienda = StrV(Familiar) THEN 3
                   ELSE 0
    IN  Min2(pts_antig + pts_viv, 30)

score_historial(datos) ==
    LET hist == GetDef(datos, "historial_crediticio", IntV(0))
    IN  IF IsNum(hist) /\ Cmp(hist, IntV(2)) = "eq" THEN 20
        ELSE IF IsNum(hist) /\ Cmp(hist, IntV(1)) = "eq" THEN 10
        ELSE 0

score_perfil_raises(datos) ==
    \/ GetDef(datos, "proposito_credito", StrV(<<>>)).t = "obj"
    \/ ~IsNum(GetDef(datos, "edad", IntV(0)))

score_perfil(datos) ==
    LET prop == GetDef(datos, "proposito_credito", StrV(<<>>))
        edad == GetDef(datos, "edad", IntV(0))
        pts == IF prop = StrV(Negocio) THEN 10
               ELSE IF prop = StrV(Educacion) THEN 8
               ELSE IF prop = StrV(Emergencia) THEN 6
               ELSE IF prop = StrV(Consumo) THEN 4
               ELSE IF prop = StrV(Vacaciones) THEN 0
               ELSE 2
        bonus == IF Le(IntV(25), edad) /\ Le(edad, IntV(55)) THEN 2 ELSE 0
    IN  Min2(pts + bonus, 10)

calculate_subscores_raises(datos, dti) ==
    \/ score_solvencia_raises(datos, dti)
    \/ score_estabilidad_raises(datos)
    \/ score_perfil_raises(datos)

calculate_subscores(datos, dti) ==
    [solvencia |-> score_solvencia(datos, dti),
     estabilidad |-> score_estabilidad(datos),
     historial_score |-> score_historial(datos),
     perfil |-> score_perfil(datos)]

\* characters in code-point order, for the ordering of two texts
Alfabeto == <<" ", "$", ",", "-", ".", "0", "1", "2", "3", "4", "5", "6", "7",
              "8", "9", "A", "C", "E", "F", "L", "N", "P", "R", "V", "[", "]",
              "a", "c", "d", "e", "f", "g", "i", "l", "m", "n", "o", "p", "r",
              "s", "t", "u", "v", "x">>
Ord(c) == CHOOSE i \in 1..Len(Alfabeto) : Alfabeto[i] = c

RECURSIVE LexCmp(_, _)
LexCmp(a, b) ==
    IF a = <<>> THEN (IF b = <<>> THEN "eq" ELSE "lt")
    ELSE IF b = <<>> THEN "gt"
    ELSE IF Ord(Head(a)) < Ord(Head(b)) THEN "lt"
    ELSE IF Ord(Head(a)) > Ord(Head(b)) THEN "gt"
    ELSE LexCmp(Tail(a), Tail(b))

\* a == b
PyEq(a, b) ==
    IF IsNum(a) /\ IsNum(b) THEN Cmp(a, b) = "eq"
    ELSE IF IsStr(a) /\ IsStr(b) THEN a.s = b.s
    ELSE IsNone(a) /\ IsNone(b)

\* the order of a and b, "err" where Python raises TypeError
PyOrd(a, b) ==
    IF IsNum(a) /\ IsNum(b) THEN Cmp(a, b)
    ELSE IF IsStr(a) /\ IsStr(b) THEN LexCmp(a.s, b.s)
    ELSE "err"

\* _comparar: an unknown operator and a TypeError both give False
comparar(actual, operador, esperado) ==
    CASE operador = "==" -> PyEq(actual, esperado)
      [] operador = "!=" -> ~PyEq(actual, esperado)
      [] operador = ">" -> PyOrd(actual, esperado) = "gt"
      [] operador = ">=" -> PyOrd(actual, esperado) \in {"gt", "eq"}
      [] operador = "<" -> PyOrd(actual, esperado) = "lt"
      [] operador = "<=" -> PyOrd(actual, esperado) \in {"lt", "eq"}
      [] OTHER -> FALSE

evaluar_directa(datos, regla) ==
    LET campo == GetDef(regla, "condicion_campo", "")
        operador == GetDef(regla, "condicion_operador", "==")
        valor_esperado == GetDef(regla, "condicion_valor", NoneV)
        valor_actual == Get(datos, campo)
    IN  IF IsNone(valor_actual) THEN FALSE
        ELSE comparar(valor_actual, operador, valor_esperado)

\* ref * factor raises TypeError unless both are numbers, or one is a str
\* and the other an int (a repetition)
producto_raises(ref, factor) ==
    ~(\/ IsNum(ref) /\ IsNum(factor)
      \/ IsStr(ref) /\ IsInt(factor)
      \/ IsInt(ref) /\ IsStr(factor))

\* s repeated n times
RECURSIVE Repetir(_, _)
Repetir(cs, n) == IF n <= 0 THEN <<>> ELSE cs \o Repetir(cs, n - 1)

\* ref * factor; the product of two finite numbers is held at the sum of
\* their scales
producto(ref, factor) ==
    IF IsStr(ref) THEN StrV(Repetir(ref.s, factor.n))
    ELSE IF IsStr(factor) THEN StrV(Repetir(factor.s, ref.n))
    ELSE IF ref.t = "nan" \/ factor.t = "nan" THEN NanV
    ELSE IF ref.t = "inf" \/ factor.t = "inf" THEN InfV
    ELSE LET e == Escala(ref) + Escala(factor)
             n == ref.n * factor.n
         IN  IF e = 0 THEN IntV(n) ELSE IF e = 2 THEN FloatV(n) ELSE Dec4V(n)

\* one condition of a compensation rule: "si", "no" or "raise"
evaluar_condicion(datos, cond) ==
    LET campo == GetDef(cond, "campo", "")
        operador == GetDef(cond, "operador", "==")
        valor_actual == Get(datos, campo)
        ref == Get(datos, GetDef(cond, "campo_referencia", ""))
        factor == GetDef(cond, "factor", FloatV(100))
    IN  IF IsNone(valor_actual) THEN "no"
        ELSE IF "campo_referencia" \in DOMAIN cond
        THEN (IF IsNone(ref) THEN "no"
              ELSE IF producto_raises(ref, factor) THEN "raise"
              ELSE IF comparar(valor_actual, operador, producto(ref, factor))
              THEN "si" ELSE "no")
        ELSE IF comparar(valor_actual, operador, GetDef(cond, "valor", NoneV))
        THEN "si" ELSE "no"

\* the loop over the conditions from position i: the first condition that
\* does not hold, or raises, decides
RECURSIVE evaluar_condiciones(_, _, _)
evaluar_condiciones(datos, condiciones, i) ==
    IF i > Len(condiciones) THEN "si"
    ELSE LET r == evaluar_condicion(datos, condiciones[i])
         IN  IF r = "si" THEN evaluar_condiciones(datos, condiciones, i + 1) ELSE r

\* variant for C17: a compensation decided by its first condition
evaluar_compensacion_primera(datos, regla) ==
    LET condiciones == GetDef(regla, "condiciones", <<>>)
    IN  IF condiciones = <<>> THEN "no"
        ELSE evaluar_condicion(datos, condiciones[1])

evaluar_compensacion(datos, regla) ==
    LET condiciones == GetDef(regla, "condiciones", <<>>)
    IN  IF condiciones = <<>> THEN "no"
        ELSE evaluar_condiciones(datos, condiciones, 1)

\* cumple for one active rule; an exception in the evaluation is logged and
\* the rule skipped
regla_cumple(datos_ext, regla) ==
    LET tipo == GetDef(regla, "tipo", "directa")
    IN  IF tipo = "directa" THEN evaluar_directa(datos_ext, regla)
        ELSE IF tipo = "compensacion"
        THEN evaluar_compensacion(datos_ext, regla) = "si"
        ELSE FALSE

entrada_raises(regla) ==
    ~({"id", "impacto_puntos", "descripcion"} \subseteq DOMAIN regla)

entrada(regla) ==
    LET e == [id |-> regla.id, impacto |-> regla.impacto_puntos,
              descripcion |-> regla.descripcion,
              tipo |-> GetDef(regla, "tipo", "directa")]
    IN  IF "flag" \in DOMAIN regla
        THEN [k \in {"id", "impacto", "descripcion", "tipo", "flag"} |->
                 IF k = "flag" THEN regla.flag ELSE e[k]]
        ELSE e

\* the loop of apply_rules from rule i with the entries collected so far;
\* regla.get raises AttributeError on an element that is no dict
RECURSIVE aplicar_desde(_, _, _, _)
aplicar_desde(rs, datos_ext, i, activadas) ==
    IF i > Len(rs) THEN [raises |-> FALSE, activadas |-> activadas]
    ELSE LET regla == rs[i]
         IN  IF ~es_dict(regla)
             THEN [raises |-> TRUE, activadas |-> <<>>]
             ELSE IF ~GetDef(regla, "activa", FALSE)
             THEN aplicar_desde(rs, datos_ext, i + 1, activadas)
             ELSE IF ~regla_cumple(datos_ext, regla)
             THEN aplicar_desde(rs, datos_ext, i + 1, activadas)
             ELSE IF entrada_raises(regla)
             THEN [raises |-> TRUE, activadas |-> <<>>]
             ELSE aplicar_desde(rs, datos_ext, i + 1,
                                Append(activadas, entrada(regla)))

\* apply_rules(datos, dti) on the engine's rule list
apply_rules(rs, datos, dti) ==
    LET datos_ext == [c \in DOMAIN datos \cup {"dti"} |->
                         IF c = "dti" THEN dti ELSE datos[c]]
    IN  aplicar_desde(rs, datos_ext, 1, <<>>)

\* _cargar_reglas on the file at the rules path: whether the constructor
\* raises, and the rule list it leaves otherwise, as the elements that
\* iterating self._reglas gives.  Only FileNotFoundError and
\* json.JSONDecodeError are caught; data.get raises AttributeError on JSON
\* that is no object, and len(self._reglas) raises TypeError on null and on
\* a number.
cargar_reglas(archivo) ==
    CASE archivo.clase = "ausente" -> [raises |-> FALSE, reglas |-> <<>>]
      [] archivo.clase = "ilegible" -> [raises |-> TRUE, reglas |-> <<>>]
      [] archivo.clase = "json_invalido" -> [raises |-> FALSE, reglas |-> <<>>]
      [] archivo.clase = "json" ->
            IF archivo.data.tipo # "dict"
            THEN [raises |-> TRUE, reglas |-> <<>>]
            ELSE IF "reglas" \notin archivo.data.claves
            THEN [raises |-> FALSE, reglas |-> <<>>]
            ELSE IF archivo.data.reglas.tipo \in {"null", "numero"}
            THEN [raises |-> TRUE, reglas |-> <<>>]
            ELSE [raises |-> FALSE, reglas |-> archivo.data.reglas.items]

\* sum(r["impacto"] for r in reglas_activadas) in hundredths:
\* [err, nan, inf, h]
RECURSIVE suma_impactos(_)
suma_impactos(activadas) ==
    LET mas(r, v) ==
            IF r.err \/ ~IsNum(v) THEN [r EXCEPT !.err = TRUE]
            ELSE IF v.t = "nan" THEN [r EXCEPT !.nan = TRUE]
            ELSE IF v.t = "inf" THEN [r EXCEPT !.inf = TRUE]
            ELSE [r EXCEPT !.h = r.h + v.n * Pow10(2 - Escala(v))]
    IN  IF activadas = <<>>
        THEN [err |-> FALSE, nan |-> FALSE, inf |-> FALSE, h |-> 0]
        ELSE mas(suma_impactos(SubSeq(activadas, 1, Len(activadas) - 1)),
                 activadas[Len(activadas)].impacto)

calculate_final_score_raises(sub_scores, reglas_activadas, monto_credito) ==
    suma_impactos(reglas_activadas).err \/ ~IsNum(monto_credito)

\* variant for C4: the threshold rises at 20000 itself
umbral_por_monto_inclusivo(monto_credito) ==
    IF Ge(monto_credito, IntV(20000)) THEN 85 ELSE 80

umbral_por_monto(monto_credito) == IF Gt(monto_credito, IntV(20000)) THEN 85 ELSE 80

\* variant for C3: the sum of sub-scores and impacts without the clamp
calculate_final_score_sin_tope(sub_scores, reglas_activadas, monto_credito) ==
    [score |-> sub_scores.solvencia + sub_scores.estabilidad
               + sub_scores.historial_score + sub_scores.perfil
               + suma_impactos(reglas_activadas).h \div 100,
     umbral |-> IF Gt(monto_credito, IntV(20000)) THEN 85 ELSE 80]

calculate_final_score(sub_scores, reglas_activadas, monto_credito) ==
    LET base == sub_scores.solvencia + sub_scores.estabilidad
                + sub_scores.historial_score + sub_scores.perfil
        \* int(max(0, min(100, base + impacto_total)))
        acotar(imp) ==
            IF imp.nan \/ imp.inf THEN 100
            ELSE IF base * 100 + imp.h <= 0 THEN 0
            ELSE IF base * 100 + imp.h >= 10000 THEN 100
            ELSE (base * 100 + imp.h) \div 100
    IN  [score |-> acotar(suma_impactos(reglas_activadas)),
         umbral |-> umbral_por_monto(monto_credito)]

\* variant for C1: get_dictamen without the CRITICO rule
get_dictamen_sin_critico(score, umbral, dti_clasificacion) ==
    IF score >= umbral THEN "APROBADO"
    ELSE IF score >= umbral - 20 THEN "REVISION_MANUAL"
    ELSE "RECHAZADO"

\* variant for C2: a score equal to the threshold is not yet approved
get_dictamen_estricto(score, umbral, dti_clasificacion) ==
    IF dti_clasificacion = "CRITICO" THEN "RECHAZADO"
    ELSE IF score > umbral THEN "APROBADO"
    ELSE IF score >= umbral - 20 THEN "REVISION_MANUAL"
    ELSE "RECHAZADO"

\* variant for C8: a decision that reads the session counters (after one
\* approval further approvals go to manual review)
get_dictamen_con_cupo(score, umbral, dti_clasificacion) ==
    IF dti_clasificacion = "CRITICO" THEN "RECHAZADO"
    ELSE IF score >= umbral /\ aprobados = 0 THEN "APROBADO"
    ELSE IF score >= umbral - 20 THEN "REVISION_MANUAL"
    ELSE "RECHAZADO"

get_dictamen(score, umbral, dti_clasificacion) ==
    IF dti_clasificacion = "CRITICO" THEN "RECHAZADO"
    ELSE IF score >= umbral THEN "APROBADO"
    ELSE IF score >= umbral - 20 THEN "REVISION_MANUAL"
    ELSE "RECHAZADO"

\* ------------------------------------------------------------------------
\* core/engine.py
\* ------------------------------------------------------------------------
\* the engine's mutable state as one value
Motor == [total_evaluaciones |-> total_evaluaciones, aprobados |-> aprobados,
          rechazados |-> rechazados, revision_manual |-> revision_manual,
          suma_scores |-> suma_scores, suma_dti |-> suma_dti, log |-> log]

\* variant for C6: an error result that keeps only the first message
resultado_con_primer_error(errores) ==
    [score_final |-> 0,
     dti_ratio |-> Dec4V(0),
     dti_clasificacion |-> "N/A",
     sub_scores |-> [solvencia |-> 0, estabilidad |-> 0,
                     historial_score |-> 0, perfil |-> 0],
     dictamen |-> "RECHAZADO",
     umbral_aplicado |-> 80,
     reglas_activadas |-> <<>>,
     compensaciones |-> <<>>,
     reporte_explicacion |-> "",
     errores_validacion |-> IF errores = <<>> THEN <<>> ELSE <<errores[1]>>]

resultado_con_errores(errores) ==
    [score_final |-> 0,
     dti_ratio |-> Dec4V(0),
     dti_clasificacion |-> "N/A",
     sub_scores |-> [solvencia |-> 0, estabilidad |-> 0,
                     historial_score |-> 0, perfil |-> 0],
     dictamen |-> "RECHAZADO",
     umbral_aplicado |-> 80,
     reglas_activadas |-> <<>>,
     compensaciones |-> <<>>,
     reporte_explicacion |-> "",
     errores_validacion |-> errores]

\* variant for C7: an internal error reported without its message
error_interno_sin_mensaje(paso) == resultado_con_errores(<<>>)

\* the except branch of evaluate: one message naming the failure
error_interno(paso) == resultado_con_errores(<<<<"Error interno", paso>>>>)

\* Explainer.generate catches its own exceptions and always returns a text
generate(datos, resultado) == "reporte"

\* f"{dti:.2f}": the ratio in hundredths (ties to the even neighbour)
Fmt2(dti) ==
    IF ~IsFinite(dti) THEN dti
    ELSE LET q == dti.n \div 100
             r == dti.n % 100
         IN  FloatV(IF r > 50 \/ (r = 50 /\ q % 2 = 1) THEN q + 1 ELSE q)

linea_log(datos, resultado) ==
    [dictamen |-> resultado.dictamen, score |-> resultado.score_final,
     dti |-> Fmt2(resultado.dti_ratio),
     monto |-> GetDef(datos, "monto_credito", IntV(0)),
     proposito |-> GetDef(datos, "proposito_credito", StrV(<<"N", "/", "A">>))]

\* variant for C14: a log written at the top of the file
log_evaluation_al_inicio(m, datos, resultado, falla_log) ==
    IF falla_log THEN m
    ELSE [m EXCEPT !.log = <<linea_log(datos, resultado)>> \o @]

\* _log_evaluation: a failed write is logged as a warning and swallowed
log_evaluation(m, datos, resultado, falla_log) ==
    IF falla_log THEN m
    ELSE [m EXCEPT !.log = Append(@, linea_log(datos, resultado))]

\* a += b on floats held in ten-thousandths
SumaDec4(a, b) == IF a.t = "nan" \/ b.t = "nan" THEN NanV
                  ELSE Dec4V(a.n + b.n * Pow10(4 - Escala(b)))

\* variant for C13: counters that leave manual reviews out
actualizar_stats_sin_revision(m, resultado) ==
    [m EXCEPT !.total_evaluaciones = @ + 1,
              !.suma_scores = @ + resultado.score_final,
              !.suma_dti = SumaDec4(@, resultado.dti_ratio),
              !.aprobados = IF resultado.dictamen = "APROBADO" THEN @ + 1 ELSE @,
              !.rechazados = IF resultado.dictamen = "RECHAZADO" THEN @ + 1 ELSE @]

actualizar_stats(m, resultado) ==
    [m EXCEPT !.total_evaluaciones = @ + 1,
              !.suma_scores = @ + resultado.score_final,
              !.suma_dti = SumaDec4(@, resultado.dti_ratio),
              !.aprobados = IF resultado.dictamen = "APROBADO" THEN @ + 1 ELSE @,
              !.rechazados = IF resultado.dictamen = "RECHAZADO" THEN @ + 1 ELSE @,
              !.revision_manual =
                  IF resultado.dictamen = "REVISION_MANUAL" THEN @ + 1 ELSE @]

\* the statements of _actualizar_stats for a result, by the attribute each
\* one adds to; every += reads the attribute and then stores the sum
sentencias_stats(resultado) ==
    <<"total_evaluaciones", "suma_scores", "suma_dti">>
    \o (CASE resultado.dictamen = "APROBADO" -> <<"aprobados">>
          [] resultado.dictamen = "RECHAZADO" -> <<"rechazados">>
          [] resultado.dictamen = "REVISION_MANUAL" -> <<"revision_manual">>
          [] OTHER -> <<>>)

\* variant for C15: an increment that reads and stores in one step
escribir_campo_atomico(m, campo, leido, resultado) ==
    [m EXCEPT ![campo] =
        CASE campo = "suma_scores" -> @ + resultado.score_final
          [] campo = "suma_dti" -> SumaDec4(@, resultado.dti_ratio)
          [] OTHER -> @ + 1]

\* the store of one += of _actualizar_stats, from the value read before
escribir_campo(m, campo, leido, resultado) ==
    [m EXCEPT ![campo] =
        CASE campo = "suma_scores" -> leido + resultado.score_final
          [] campo = "suma_dti" -> SumaDec4(leido, resultado.dti_ratio)
          [] OTHER -> leido + 1]

\* steps 3 to 7 of evaluate on validated data: the result before the log
\* and the counters, with the steps run and the step that raised ("" if none)
puntuar(rs, datos_limpios) ==
    LET ingreso == datos_limpios["ingreso_mensual"]
        deuda == datos_limpios["total_deuda_actual"]
        monto == datos_limpios["monto_credito"]
        falla(paso, pasos) ==
            [res |-> error_interno(paso), excepcion |-> paso, pasos |-> pasos]
        con_explicacion(parcial) ==
            [res |-> [parcial EXCEPT !.reporte_explicacion =
                                         generate(datos_limpios, parcial)],
             excepcion |-> "",
             pasos |-> <<"calculate_dti", "calculate_subscores", "apply_rules",
                         "calculate_final_score", "get_dictamen", "generate",
                         "log_evaluation", "actualizar_stats">>]
        paso_6(d, sub_scores, activadas, fs) ==
            con_explicacion(
                [score_final |-> fs.score,
                 dti_ratio |-> d.dti,
                 dti_clasificacion |-> d.clasif,
                 sub_scores |-> sub_scores,
                 dictamen |-> get_dictamen(fs.score, fs.umbral, d.clasif),
                 umbral_aplicado |-> fs.umbral,
                 reglas_activadas |-> activadas,
                 compensaciones |->
                     SelectSeq(activadas, LAMBDA r : r.tipo = "compensacion"),
                 reporte_explicacion |-> "",
                 errores_validacion |-> <<>>])
        paso_5(d, sub_scores, ar) ==
            IF ar.raises
            THEN falla("apply_rules",
                       <<"calculate_dti", "calculate_subscores", "apply_rules">>)
            ELSE IF calculate_final_score_raises(sub_scores, ar.activadas, monto)
            THEN falla("calculate_final_score",
                       <<"calculate_dti", "calculate_subscores", "apply_rules",
                         "calculate_final_score">>)
            ELSE paso_6(d, sub_scores, ar.activadas,
                        calculate_final_score(sub_scores, ar.activadas, monto))
        paso_4(d) ==
            IF calculate_subscores_raises(datos_limpios, d.dti)
            THEN falla("calculate_subscores",
                       <<"calculate_dti", "calculate_subscores">>)
            ELSE paso_5(d, calculate_subscores(datos_limpios, d.dti),
                        apply_rules(rs, datos_limpios, d.dti))
    IN  IF calculate_dti_raises(ingreso, deuda)
        THEN falla("calculate_dti", <<"calculate_dti">>)
        ELSE paso_4(calculate_dti(ingreso, deuda))

\* evaluate(datos) on an engine in state m with rule list rs; falla_log says
\* whether this call's log write fails.  Gives the engine's next state, the
\* returned result, the steps run, the step whose exception reached the
\* except branch, and the validator's outcome.
evaluate(m, rs, datos, falla_log) ==
    LET paso_3(datos_limpios, p) ==
            IF p.excepcion # ""
            THEN [m |-> m, res |-> p.res, excepcion |-> p.excepcion,
                  pasos |-> <<"sanitize", "validate">> \o p.pasos,
                  log_fallo |-> FALSE]
            ELSE [m |-> actualizar_stats(
                           log_evaluation(m, datos_limpios, p.res, falla_log),
                           p.res),
                  res |-> p.res, excepcion |-> "",
                  pasos |-> <<"sanitize", "validate">> \o p.pasos,
                  log_fallo |-> falla_log]
        paso_2(datos_limpios, v) ==
            IF ~v.valido
            THEN [m |-> m, res |-> resultado_con_errores(v.errores),
                  excepcion |-> "", pasos |-> <<"sanitize", "validate">>,
                  log_fallo |-> FALSE]
            ELSE paso_3(datos_limpios, puntuar(rs, datos_limpios))
        paso_1(datos_limpios) == paso_2(datos_limpios, validate(datos_limpios))
    IN  IF sanitize_raises(datos)
        THEN [m |-> m, res |-> error_interno("sanitize"), excepcion |-> "sanitize",
              pasos |-> <<"sanitize">>, log_fallo |-> FALSE]
        ELSE paso_1(sanitize(datos))

\* the loop of evaluate_batch from record i: results so far in resultados
RECURSIVE batch_desde(_, _, _, _, _, _)
batch_desde(m, rs, lista_datos, falla_log, i, resultados) ==
    LET sigue(e) ==
            batch_desde(e.m, rs, lista_datos, falla_log, i + 1,
                        Append(resultados, [res |-> e.res, indice |-> i - 1]))
    IN  IF i > Len(lista_datos) THEN [m |-> m, resultados |-> resultados]
        ELSE sigue(evaluate(m, rs, lista_datos[i], falla_log))

\* variant for C9: a batch that stops at the first record with errors
evaluate_batch_hasta_error(m, rs, lista_datos, falla_log) ==
    LET e == batch_desde(m, rs, lista_datos, falla_log, 1, <<>>)
        malos == {i \in 1..Len(e.resultados) :
                     e.resultados[i].res.errores_validacion # <<>>}
        n == IF malos = {} THEN Len(lista_datos)
             ELSE CHOOSE i \in malos : \A j \in malos : i <= j
    IN  batch_desde(m, rs, SubSeq(lista_datos, 1, n), falla_log, 1, <<>>)

evaluate_batch(m, rs, lista_datos, falla_log) ==
    batch_desde(m, rs, lista_datos, falla_log, 1, <<>>)

\* the stats property
stats(m) ==
    IF m.total_evaluaciones = 0
    THEN [total_evaluaciones |-> 0, aprobados |-> 0, rechazados |-> 0,
          revision_manual |-> 0]
    ELSE [total_evaluaciones |-> m.total_evaluaciones, aprobados |-> m.aprobados,
          rechazados |-> m.rechazados, revision_manual |-> m.revision_manual]

\* ------------------------------------------------------------------------
\* Inputs: applicant records (tests/fixtures.py and variations) and rule sets
\* ------------------------------------------------------------------------
Datos(edad, ingreso, deuda, hist, antig, deps, viv, prop, monto) ==
    [edad |-> edad, ingreso_mensual |-> ingreso, total_deuda_actual |-> deuda,
     historial_crediticio |-> hist, antiguedad_laboral |-> antig,
     numero_dependientes |-> deps, tipo_vivienda |-> viv,
     proposito_credito |-> prop, monto_credito |-> monto]

CASO_IDEAL == Datos(IntV(35), FloatV(2500000), FloatV(400000), IntV(2), IntV(7),
                    IntV(1), StrV(Propia), StrV(Negocio), FloatV(1500000))
CASO_RIESGO == Datos(IntV(19), FloatV(800000), FloatV(550000), IntV(0), IntV(0),
                     IntV(3), StrV(Rentada), StrV(Vacaciones), FloatV(1200000))
CASO_GRIS == Datos(IntV(28), FloatV(1500000), FloatV(300000), IntV(1), IntV(2),
                   IntV(1), StrV(Familiar), StrV(Consumo), FloatV(1000000))
CASO_MONTO_ALTO == Datos(IntV(45), FloatV(4000000), FloatV(500000), IntV(2),
                         IntV(15), IntV(1), StrV(Propia), StrV(Negocio),
                         FloatV(4500000))
DATOS_SANITIZAR ==
    Datos(StrV(<<" ", " ", "3", "5", " ">>),
          StrV(<<"$", "2", "5", ",", "0", "0", "0", ".", "0", "0">>),
          StrV(<<"4", "0", "0", "0">>), StrV(<<"2">>), StrV(<<"7", ".", "0">>),
          StrV(<<" ", "1", " ">>), StrV(<<"p", "r", "o", "p", "i", "a">>),
          StrV(<<"n", "e", "g", "o", "c", "i", "o">>),
          StrV(<<"$", "1", "5", ",", "0", "0", "0">>))
DATOS_CAMPOS_FALTANTES == [edad |-> IntV(30), ingreso_mensual |-> FloatV(1500000)]
DATOS_VACIOS == [c \in {} |-> NoneV]
\* the list [5] is held as an object
DATOS_INVALIDOS_TIPOS ==
    Datos(StrV(<<"t", "r", "e", "i", "n", "t", "a">>),
          StrV(<<"m", "u", "c", "h", "o">>), NoneV, FloatV(250), ObjV,
          StrV(<<"d", "o", "s">>), IntV(123), TrueV,
          StrV(<<"q", "u", "i", "n", "c", "e", " ", "m", "i", "l">>))
DATOS_RANGOS_EXTREMOS ==
    Datos(IntV(150), FloatV(0 - 500000), FloatV(0 - 10000), IntV(9), IntV(50),
          IntV(20), StrV(<<"C", "a", "s", "t", "i", "l", "l", "o">>),
          StrV(<<"L", "u", "j", "o">>), FloatV(99999900))

\* the requested amount on either side of the 20000 threshold
MONTO_20000 == [CASO_MONTO_ALTO EXCEPT !.monto_credito = FloatV(2000000)]
MONTO_20000_01 == [CASO_MONTO_ALTO EXCEPT !.monto_credito = FloatV(2000001)]
\* a strong profile whose debt is 80% of the income
CRITICO_SOLVENTE == [CASO_IDEAL EXCEPT !.total_deuda_actual = FloatV(2000000)]
\* values that pass validation without being usable numbers
HISTORIAL_NULO == [CASO_GRIS EXCEPT !.historial_crediticio = NoneV]
INGRESO_NULO == [CASO_IDEAL EXCEPT !.ingreso_mensual = NoneV]
EDAD_NULA == [CASO_IDEAL EXCEPT !.edad = NoneV]
MONTO_NULO == [CASO_IDEAL EXCEPT !.monto_credito = NoneV]
INGRESO_NAN == [CASO_IDEAL EXCEPT !.ingreso_mensual = NanV]
EDAD_INF == [CASO_IDEAL EXCEPT !.edad = InfV]
\* valid profiles that meet the conditions of the malformed rules below
EDAD_60 == [CASO_IDEAL EXCEPT !.edad = IntV(60)]
DEPENDIENTES_7 == [CASO_IDEAL EXCEPT !.numero_dependientes = IntV(7)]
\* evaluate(None): an argument that is no dict
ARGUMENTO_NONE == NoneV

\* every applicant record of the model
EntradasEvaluate ==
    {CASO_IDEAL, CASO_RIESGO, CASO_GRIS, CASO_MONTO_ALTO, DATOS_SANITIZAR,
     DATOS_CAMPOS_FALTANTES, DATOS_VACIOS, DATOS_INVALIDOS_TIPOS,
     DATOS_RANGOS_EXTREMOS, MONTO_20000, MONTO_20000_01, CRITICO_SOLVENTE,
     HISTORIAL_NULO, INGRESO_NULO, EDAD_NULA, MONTO_NULO, INGRESO_NAN, EDAD_INF,
     EDAD_60, DEPENDIENTES_7, ARGUMENTO_NONE}

\* the records a session of several calls draws from
EntradasSesion ==
    {CASO_IDEAL, CASO_RIESGO, CASO_GRIS, DATOS_CAMPOS_FALTANTES, INGRESO_NULO}

\* the records evaluate_batch draws from: accepted, invalid, raising
EntradasLote == {CASO_IDEAL, DATOS_CAMPOS_FALTANTES, INGRESO_NULO}

Directa(id, campo, operador, valor, impacto) ==
    [id |-> id, activa |-> TRUE, tipo |-> "directa", condicion_campo |-> campo,
     condicion_operador |-> operador, condicion_valor |-> valor,
     impacto_puntos |-> impacto, descripcion |-> id]

Literal(campo, operador, valor) == [campo |-> campo, operador |-> operador, valor |-> valor]

Compensacion(id, condiciones, impacto) ==
    [id |-> id, activa |-> TRUE, tipo |-> "compensacion",
     condiciones |-> condiciones, impacto_puntos |-> impacto, descripcion |-> id]

\* a rule set with the rule ids and conditions tests/test_scorer.py names
REGLAS_BASE ==
    <<Directa("R001", "historial_crediticio", "==", IntV(2), IntV(10)),
      Directa("R002", "historial_crediticio", "==", IntV(0), IntV(0 - 15)),
      Directa("R005", "tipo_vivienda", "==", StrV(Propia), IntV(5)),
      Directa("R009", "edad", "<", IntV(21), IntV(0 - 5)),
      Compensacion("R011",
          <<Literal("historial_crediticio", "==", IntV(1)),
            Literal("dti", "<", FloatV(25)),
            Literal("antiguedad_laboral", ">=", IntV(2))>>, IntV(8)),
      [Directa("R014", "dti", ">", FloatV(40), IntV(0 - 10))
          EXCEPT !.descripcion = "DTI alto"] @@ [flag |-> "DTI_ALTO_PENALIZADO"],
      Compensacion("R015",
          <<Literal("numero_dependientes", "<=", IntV(1)),
            [campo |-> "monto_credito", operador |-> "<=",
             campo_referencia |-> "ingreso_mensual", factor |-> FloatV(50)]>>,
          IntV(5)),
      [Directa("R099", "edad", ">=", IntV(18), IntV(50)) EXCEPT !.activa = FALSE]>>

\* large impacts of both signs, a fractional impact, and malformed rules
REGLAS_EXTREMAS ==
    <<Directa("X001", "ingreso_mensual", ">", IntV(0), IntV(200)),
      Directa("X002", "proposito_credito", "==", StrV(Vacaciones), IntV(0 - 300)),
      Directa("X003", "antiguedad_laboral", ">=", IntV(5), FloatV(250)),
      Directa("X004", "edad", "~=", IntV(35), IntV(7)),
      [Directa("X005", "edad", ">=", IntV(18), IntV(7)) EXCEPT !.tipo = "otro"],
      Directa("X006", "tipo_vivienda", ">", IntV(3), IntV(7)),
      [k \in {"activa", "tipo", "condicion_campo", "condicion_operador",
              "condicion_valor", "impacto_puntos"} |->
          Directa("", "edad", ">=", IntV(60), IntV(1))[k]],
      Directa("X008", "numero_dependientes", "==", IntV(7), StrV(<<"x">>))>>

\* a rule without the keys k
Sin(regla, ks) == [k \in DOMAIN regla \ ks |-> regla[k]]

\* rules with a key missing: from the condition, from a condition of the
\* list, or from the entry of the fired list
REGLAS_INCOMPLETAS ==
    <<Sin(Directa("M001", "historial_crediticio", "==", IntV(2), IntV(3)),
          {"condicion_operador"}),
      Sin(Directa("M002", "edad", "==", IntV(35), IntV(3)), {"condicion_campo"}),
      Sin(Directa("M003", "numero_dependientes", "!=", IntV(3), IntV(0 - 4)),
          {"condicion_valor"}),
      Sin(Compensacion("M004", <<>>, IntV(3)), {"condiciones"}),
      Compensacion("M005",
          <<Sin(Literal("edad", ">=", IntV(18)), {"campo"})>>, IntV(3)),
      Compensacion("M006",
          <<Sin(Literal("edad", "==", IntV(28)), {"operador"})>>, IntV(2)),
      Compensacion("M007",
          <<[campo |-> "monto_credito", operador |-> "<=",
             campo_referencia |-> "ingreso_mensual"]>>, IntV(1)),
      Sin(Directa("M008", "tipo_vivienda", "==", StrV(Rentada), IntV(3)),
          {"descripcion"}),
      Sin(Directa("M009", "proposito_credito", "==", StrV(Educacion), IntV(3)),
          {"impacto_puntos"})>>

\* parsed JSON: a list, a text (its items are its characters), null, a
\* number, and an object with the keys claves
JLista(items) == [tipo |-> "lista", items |-> items]
JTexto(cs) == [tipo |-> "texto", items |-> [i \in 1..Len(cs) |-> StrV(<<cs[i]>>)]]
JNull == [tipo |-> "null", items |-> <<>>]
JNumero == [tipo |-> "numero", items |-> <<>>]
JObjeto(claves, valor_reglas) ==
    [tipo |-> "dict", claves |-> claves, reglas |-> valor_reglas]

\* what may be found at the rules path
ArchivosReglas ==
    {[clase |-> c, data |-> JNull] : c \in {"ausente", "ilegible", "json_invalido"}}
    \cup {[clase |-> "json", data |-> d] :
            d \in {JLista(<<>>), JLista(REGLAS_BASE), JNull, JNumero,
                   JTexto(<<"a", "b">>),
                   JObjeto({"version"}, JNull),
                   JObjeto({"version", "reglas"}, JNull),
                   JObjeto({"version", "reglas"}, JNumero),
                   JObjeto({"version", "reglas"}, JTexto(<<"a", "b">>)),
                   JObjeto({"version", "reglas"}, JTexto(<<>>)),
                   JObjeto({"version", "reglas"}, JLista(<<IntV(1)>>)),
                   JObjeto({"version", "reglas"}, JLista(<<>>)),
                   JObjeto({"version", "reglas"}, JLista(REGLAS_BASE))}}

\* the rule lists an engine may have loaded; the empty list is what
\* _cargar_reglas gives when the file is missing
ConjuntosReglas == {<<>>, REGLAS_BASE, REGLAS_EXTREMAS, REGLAS_INCOMPLETAS}

\* ------------------------------------------------------------------------
\* Bounds
\* ------------------------------------------------------------------------
MaxEvals == 2     \* evaluations counted by one engine instance
MaxLog == 2       \* lines in the evaluation log
MaxBatch == 2     \* records in one evaluate_batch call
MaxCasos == 3     \* cases in the label and score vectors of the metrics
MaxCriticas == 2  \* critical variables in an error analysis
MaxRegistros == 2 \* records in a dataset given to simulate

\* the request threads of the web application, which share one engine
Hilos == {"h1", "h2"}

\* a thread that has not called evaluate yet
HiloLibre == [pc |-> "libre", k |-> 1, leidos |-> <<>>, resultado |-> <<>>]

MotorInicial ==
    [total_evaluaciones |-> 0, aprobados |-> 0, rechazados |-> 0,
     revision_manual |-> 0, suma_scores |-> 0, suma_dti |-> Dec4V(0), log |-> <<>>]

\* ------------------------------------------------------------------------
\* The knowledge directory and the calibrator (validation/calibrator.py)
\* ------------------------------------------------------------------------
\* a file: absent, not JSON, or JSON data
Ausente == [clase |-> "ausente"]
JsonInvalido == [clase |-> "json_invalido"]
Json(data) == [clase |-> "json", data |-> data]

\* the dict {} as a weights configuration: no "pesos", no "_meta"
VACIO == [tiene_pesos |-> FALSE, pesos |-> <<>>, tiene_meta |-> FALSE,
          version |-> "", cambios |-> <<>>]

WEIGHTS == "weights.json"
BACKUP == "weights_v1_backup.json"

\* this tree: no knowledge directory
SIN_CONOCIMIENTO == [n \in {WEIGHTS, BACKUP} |-> Ausente]

\* WeightCalibrator._load_json: FileNotFoundError and JSONDecodeError are
\* logged and give {}
load_json(archivo) == IF archivo.clase = "json" THEN archivo.data ELSE VACIO

\* main before its first phase
MainInicial == [pc |-> "fase1", datos_mihac |-> <<>>, y_real |-> <<>>,
                scores |-> <<>>, analisis |-> <<>>, propuestas |-> <<>>,
                comparacion |-> <<>>]

\* WeightCalibrator.__init__ over the directory a; nothing applied yet
InitCalibrador(a) ==
    /\ archivos = a
    /\ cal_weights = load_json(a[WEIGHTS])
    /\ aprobacion = FALSE
    /\ main = MainInicial
    /\ anteriores = <<>>

CalibradorIgual == UNCHANGED <<archivos, cal_weights, aprobacion, main, anteriores>>

\* ------------------------------------------------------------------------
\* Specification
\* ------------------------------------------------------------------------
\* InferenceEngine.__init__ with an empty log file
InitEngine ==
    /\ reglas \in ConjuntosReglas
    /\ total_evaluaciones = 0
    /\ aprobados = 0
    /\ rechazados = 0
    /\ revision_manual = 0
    /\ suma_scores = 0
    /\ suma_dti = Dec4V(0)
    /\ log = <<>>
    /\ log_escribible = TRUE
    /\ call = [op |-> "init", arg |-> <<>>, res |-> <<>>]
    /\ hilos = [h \in Hilos |-> HiloLibre]

\* the engine and the calibrator of this tree
Init == InitEngine /\ InitCalibrador(SIN_CONOCIMIENTO)

PonerMotor(m) ==
    /\ total_evaluaciones' = m.total_evaluaciones
    /\ aprobados' = m.aprobados
    /\ rechazados' = m.rechazados
    /\ revision_manual' = m.revision_manual
    /\ suma_scores' = m.suma_scores
    /\ suma_dti' = m.suma_dti
    /\ log' = m.log

MotorIgual == UNCHANGED <<total_evaluaciones, aprobados, rechazados,
                          revision_manual, suma_scores, suma_dti, log>>

\* engine.evaluate(datos)
Evaluate(datos) ==
    LET retorna(e) ==
            /\ PonerMotor(e.m)
            /\ call' = [op |-> "evaluate", arg |-> datos,
                        res |-> [resultado |-> e.res, pasos |-> e.pasos,
                                 excepcion |-> e.excepcion,
                                 log_fallo |-> e.log_fallo]]
    IN  /\ total_evaluaciones < MaxEvals
        /\ Len(log) < MaxLog
        /\ retorna(evaluate(Motor, reglas, datos, ~log_escribible))
        /\ UNCHANGED <<reglas, log_escribible, hilos>>
        /\ CalibradorIgual

\* engine.evaluate_batch(lista_datos)
EvaluateBatch(lista_datos) ==
    LET retorna(b) ==
            /\ PonerMotor(b.m)
            /\ call' = [op |-> "evaluate_batch", arg |-> lista_datos,
                        res |-> b.resultados]
    IN  /\ total_evaluaciones + Len(lista_datos) <= MaxEvals
        /\ Len(log) + Len(lista_datos) <= MaxLog
        /\ retorna(evaluate_batch(Motor, reglas, lista_datos, ~log_escribible))
        /\ UNCHANGED <<reglas, log_escribible, hilos>>
        /\ CalibradorIgual

\* a fresh InferenceEngine(): the counters start at zero, the rules are read
\* again from the same file, the log file stays
NewEngine ==
    /\ total_evaluaciones > 0
    /\ PonerMotor([MotorInicial EXCEPT !.log = log])
    /\ UNCHANGED <<reglas, log_escribible, call, hilos>>
    /\ CalibradorIgual

\* the environment makes the log file unwritable, or writable again
CambiarPermisos ==
    /\ log_escribible' = ~log_escribible
    /\ MotorIgual
    /\ UNCHANGED <<reglas, call, hilos>>
    /\ CalibradorIgual

Listas(S, n) == UNION {[1..k -> S] : k \in 0..n}

\* a session: calls one after another on the engine, and new engines
Next ==
    \/ \E datos \in EntradasSesion : Evaluate(datos)
    \/ \E lista \in Listas(EntradasLote, MaxBatch) : EvaluateBatch(lista)
    \/ NewEngine
    \/ CambiarPermisos

Spec == Init /\ [][Next]_vars

\* ------------------------------------------------------------------------
\* Single calls: evaluate as the first call on a new engine, and the
\* scorer's and the validator's methods called on their own
\* (tests/test_scorer.py, tests/test_validator.py)
\* ------------------------------------------------------------------------
PrimeraLlamada == call.op = "init"

\* a call that leaves the engine as it is
Llamada(op, arg, res) ==
    /\ call' = [op |-> op, arg |-> arg, res |-> res]
    /\ MotorIgual
    /\ UNCHANGED <<reglas, log_escribible, hilos>>
    /\ CalibradorIgual

GetDictamen(score, umbral, dti_clasificacion) ==
    Llamada("get_dictamen",
            [score |-> score, umbral |-> umbral,
             dti_clasificacion |-> dti_clasificacion],
            get_dictamen(score, umbral, dti_clasificacion))

CalculateDti(ingreso_mensual, total_deuda) ==
    Llamada("calculate_dti",
            [ingreso_mensual |-> ingreso_mensual, total_deuda |-> total_deuda],
            calculate_dti(ingreso_mensual, total_deuda))

CalculateSubscores(datos, dti) ==
    Llamada("calculate_subscores", [datos |-> datos, dti |-> dti],
            calculate_subscores(datos, dti))

CalculateFinalScore(sub_scores, reglas_activadas, monto_credito) ==
    Llamada("calculate_final_score",
            [sub_scores |-> sub_scores, reglas_activadas |-> reglas_activadas,
             monto_credito |-> monto_credito],
            calculate_final_score(sub_scores, reglas_activadas, monto_credito))

Validate(datos) == Llamada("validate", datos, validate(datos))

\* a new engine over the file at the rules path: ScoringEngine.__init__
\* reads the rules; the counters start at zero, the log file stays
Construir(archivo) ==
    LET sigue(c) ==
            /\ call' = [op |-> "construir", arg |-> archivo,
                        res |-> [raises |-> c.raises]]
            /\ reglas' = IF c.raises THEN reglas ELSE c.reglas
    IN  /\ sigue(cargar_reglas(archivo))
        /\ PonerMotor([MotorInicial EXCEPT !.log = log])
        /\ UNCHANGED <<log_escribible, hilos>>
        /\ CalibradorIgual

\* the engine has just been built over a rules file
Construido == call.op = "construir" /\ ~call.res.raises

\* scorer.apply_rules(datos, dti)
ApplyRules(datos, dti) ==
    Llamada("apply_rules", [datos |-> datos, dti |-> dti],
            apply_rules(reglas, datos, dti))

\* validator.sanitize(datos) called on its own: whether it raises, the dict it
\* returns, and the caller's dict after the call (sanitize writes to the new
\* dict limpio only)
Sanitize(datos) ==
    Llamada("sanitize", datos,
            [raises |-> sanitize_raises(datos),
             limpio |-> IF sanitize_raises(datos) THEN <<>> ELSE sanitize(datos),
             datos |-> datos])

\* arguments of get_dictamen
Scores == 0..100
Umbrales == {80, 85}
Clasificaciones == {"BAJO", "MODERADO", "ALTO", "CRITICO"}

\* arguments of calculate_dti: incomes of no more than zero and incomes for
\* which no quotient below lies halfway between two rounded values
IngresosDti ==
    {IntV(0 - 5000), FloatV(0 - 1), IntV(0), FloatV(0), IntV(8000), IntV(10000),
     FloatV(1000000), IntV(25000), NanV}
DeudasDti ==
    {IntV(100 * k) : k \in 0..80}
    \cup {IntV(2499), IntV(2501), IntV(3999), IntV(4001), IntV(5999), IntV(6001),
          FloatV(249949), FloatV(249951), FloatV(399949), FloatV(599951)}

\* arguments of calculate_subscores: each group of fields a sub-score reads
\* is varied on its own around CASO_GRIS
DtisSubscores == {Dec4V(0), Dec4V(2499), Dec4V(2500), Dec4V(3999), Dec4V(4000),
                  Dec4V(5999), Dec4V(6000), Dec4V(10000), NanV}
DatosSolvencia ==
    {[CASO_GRIS EXCEPT !.ingreso_mensual = i, !.numero_dependientes = IntV(d)] :
        i \in {IntV(1), IntV(3000), FloatV(800000), FloatV(2500000), IntV(29999),
               IntV(30000), IntV(60000), NanV, InfV},
        d \in {0, 1, 3, 10}}
DatosEstabilidad ==
    {[CASO_GRIS EXCEPT !.antiguedad_laboral = IntV(a), !.tipo_vivienda = StrV(v)] :
        a \in {0, 1, 2, 4, 5, 40},
        v \in {Propia, Familiar, Rentada, <<"C", "a", "s", "a">>}}
DatosHistorial ==
    {[CASO_GRIS EXCEPT !.historial_crediticio = h] :
        h \in {IntV(0), IntV(1), IntV(2), IntV(9), NoneV}}
DatosPerfil ==
    {[CASO_GRIS EXCEPT !.proposito_credito = StrV(pr), !.edad = IntV(e)] :
        pr \in {Negocio, Educacion, Emergencia, Consumo, Vacaciones,
                <<"L", "u", "n", "a">>},
        e \in {18, 24, 25, 55, 56, 99}}
EntradasSubscores ==
    (DatosSolvencia \X DtisSubscores)
    \cup ((DatosEstabilidad \cup DatosHistorial \cup DatosPerfil) \X {Dec4V(2000)})

\* arguments of calculate_final_score
Activada(impacto) ==
    [id |-> "R", impacto |-> impacto, descripcion |-> "R", tipo |-> "directa"]
SubScoresFinal ==
    {[solvencia |-> 0, estabilidad |-> 0, historial_score |-> 0, perfil |-> 0],
     [solvencia |-> 22, estabilidad |-> 21, historial_score |-> 10, perfil |-> 6],
     [solvencia |-> 30, estabilidad |-> 28, historial_score |-> 20, perfil |-> 6],
     [solvencia |-> 40, estabilidad |-> 30, historial_score |-> 20, perfil |-> 10]}
ActivadasFinal ==
    {<<>>,
     <<Activada(IntV(1))>>,
     <<Activada(IntV(0 - 1))>>,
     <<Activada(IntV(200))>>,
     <<Activada(IntV(0 - 300))>>,
     <<Activada(FloatV(250))>>,
     <<Activada(IntV(10)), Activada(IntV(0 - 15))>>,
     <<Activada(IntV(200)), Activada(IntV(0 - 300)), Activada(IntV(150))>>}
MontosFinal ==
    {IntV(500), IntV(19999), IntV(20000), FloatV(2000000), FloatV(2000001),
     IntV(20001), IntV(50000), NanV, InfV}

\* arguments of validate: nine fields present and well typed, each field
\* with values inside and outside its range
EntradasValidate ==
    {Datos(IntV(e), i, IntV(d), IntV(h), IntV(a), IntV(n), StrV(v), StrV(pr),
           IntV(m)) :
        e \in {17, 30, 100},
        i \in {FloatV(0 - 500000), IntV(0), FloatV(100000)},
        d \in {0 - 100, 0, 25000},
        h \in {1, 9},
        a \in {0 - 1, 2, 16, 41},
        n \in {1, 20},
        v \in {Propia, <<"C", "a", "s", "a">>},
        pr \in {Negocio, <<"L", "u", "n", "a">>},
        m \in {499, 5000, 19000, 60000}}

\* arguments of validate with fields missing: every subset of the nine fields
\* of three records
EntradasIncompletas ==
    {[c \in campos |-> base[c]] :
        campos \in SUBSET Rango(CAMPOS_REQUERIDOS),
        base \in {CASO_IDEAL, DATOS_INVALIDOS_TIPOS, DATOS_RANGOS_EXTREMOS}}

\* arguments of validate with the nine fields present: a valid record in
\* which the fields of one set come from the record of wrong types or from
\* the record of values out of range, and in which two fields come one from
\* each
EntradasMezcladas ==
    {[c \in Rango(CAMPOS_REQUERIDOS) |->
         IF c \in campos THEN otro[c] ELSE CASO_IDEAL[c]] :
        campos \in SUBSET Rango(CAMPOS_REQUERIDOS),
        otro \in {DATOS_INVALIDOS_TIPOS, DATOS_RANGOS_EXTREMOS}}
    \cup {[c \in Rango(CAMPOS_REQUERIDOS) |->
              IF c = c1 THEN DATOS_INVALIDOS_TIPOS[c]
              ELSE IF c = c2 THEN DATOS_RANGOS_EXTREMOS[c] ELSE CASO_IDEAL[c]] :
            c1 \in Rango(CAMPOS_REQUERIDOS), c2 \in Rango(CAMPOS_REQUERIDOS)}

\* field values of every kind sanitize may meet
ValoresCrudos ==
    {IntV(35), IntV(0 - 5), TrueV, FloatV(700), FloatV(250), NanV, InfV, NoneV,
     ObjV,
     StrV(<<" ", " ", "3", "5", " ">>),
     StrV(<<"$", "2", "5", ",", "0", "0", "0", ".", "0", "0">>),
     StrV(<<"7", ".", "0">>),
     StrV(<<"-">>),
     StrV(<<>>),
     StrV(<<" ", "d", "o", "s", " ">>),
     StrV(<<"t", "r", "e", "i", "n", "t", "a">>),
     StrV(<<"p", "r", "o", "p", "i", "a">>)}

\* arguments of sanitize: one field of a record replaced by each value, a
\* record with a field the validator does not know, and the fixtures
\* the record of test_compensacion_r015_maxima_estabilidad: six fields
DATOS_R015 ==
    [numero_dependientes |-> IntV(0), tipo_vivienda |-> StrV(Propia),
     antiguedad_laboral |-> IntV(5), historial_crediticio |-> IntV(2),
     ingreso_mensual |-> IntV(30000), monto_credito |-> IntV(10000)]

\* profiles for apply_rules: the fixtures, and variations of them around
\* the conditions of the rules
EntradasReglas ==
    {CASO_IDEAL, CASO_RIESGO, CASO_GRIS, EDAD_60, DEPENDIENTES_7, DATOS_R015,
     [CASO_GRIS EXCEPT !.antiguedad_laboral = IntV(1)],
     [CASO_GRIS EXCEPT !.proposito_credito = StrV(Educacion)],
     [CASO_IDEAL EXCEPT !.monto_credito = FloatV(1250000)],
     [CASO_IDEAL EXCEPT !.monto_credito = FloatV(1250001)],
     [CASO_IDEAL EXCEPT !.numero_dependientes = IntV(2)],
     Sin(DATOS_R015, {"ingreso_mensual"}),
     Sin(DATOS_R015, {"monto_credito"}),
     Sin(CASO_GRIS, {"historial_crediticio"})}

\* DTI ratios passed to apply_rules, in ten-thousandths
DtisReglas == {Dec4V(0), Dec4V(1000), Dec4V(1600), Dec4V(2499), Dec4V(2500),
               Dec4V(5000)}

EntradasSanitize ==
    {[DATOS_SANITIZAR EXCEPT ![c] = v] :
        c \in Rango(CAMPOS_REQUERIDOS), v \in ValoresCrudos}
    \cup {[c \in {"edad", "nota"} |-> v] : v \in ValoresCrudos}
    \cup (EntradasEvaluate \ {ARGUMENTO_NONE})

NextLlamada ==
    \/ PrimeraLlamada /\ \E datos \in EntradasEvaluate : Evaluate(datos)
    \/ PrimeraLlamada
       /\ \E score \in Scores, umbral \in Umbrales, clasif \in Clasificaciones :
              GetDictamen(score, umbral, clasif)
    \/ PrimeraLlamada
       /\ \E ingreso \in IngresosDti, deuda \in DeudasDti :
              CalculateDti(ingreso, deuda)
    \/ PrimeraLlamada
       /\ \E e \in EntradasSubscores : CalculateSubscores(e[1], e[2])
    \/ PrimeraLlamada
       /\ \E ss \in SubScoresFinal, activadas \in ActivadasFinal,
             monto \in MontosFinal : CalculateFinalScore(ss, activadas, monto)
    \/ PrimeraLlamada
       /\ \E datos \in EntradasValidate \cup EntradasIncompletas
                          \cup EntradasMezcladas : Validate(datos)
    \/ PrimeraLlamada /\ \E datos \in EntradasSanitize : Sanitize(datos)
    \/ PrimeraLlamada
       /\ \E datos \in EntradasReglas, dti \in DtisReglas : ApplyRules(datos, dti)
    \/ PrimeraLlamada /\ \E archivo \in ArchivosReglas : Construir(archivo)
    \/ Construido /\ \E datos \in EntradasSesion : Evaluate(datos)
    \/ PrimeraLlamada /\ CambiarPermisos

SpecLlamada == Init /\ [][NextLlamada]_vars

\* ------------------------------------------------------------------------
\* Validation: the metrics and the calibrator, called on their own
\* (validation/metrics.py, validation/calibrator.py)
\* ------------------------------------------------------------------------
\* variant for C19: a matrix without the cell of the false negatives
confusion_matrix_data_sin_fn(y_real, y_pred) ==
    LET n(p, r) == Cardinality({i \in 1..Len(y_real) :
                                   y_pred[i] = p /\ y_real[i] = r})
    IN  [VP |-> n(1, 1), FP |-> n(1, 0), VN |-> n(0, 0), FN |-> 0,
         total |-> n(1, 1) + n(1, 0) + n(0, 0)]

\* MIHACMetrics.confusion_matrix_data: each cell counts the positions with
\* its pair of labels; total is the sum of the four cells
confusion_matrix_data(y_real, y_pred) ==
    LET n(p, r) == Cardinality({i \in 1..Len(y_real) :
                                   y_pred[i] = p /\ y_real[i] = r})
    IN  [VP |-> n(1, 1), FP |-> n(1, 0), VN |-> n(0, 0), FN |-> n(0, 1),
         total |-> n(1, 1) + n(1, 0) + n(0, 0) + n(0, 1)]

COSTO_FP == 4
COSTO_FN == 1

\* exact fractions <<numerator, denominator>> with a positive denominator;
\* products cancel common factors first, so that they stay small
RECURSIVE Mcd(_, _)
Mcd(a, b) == IF b = 0 THEN a ELSE Mcd(b, a % b)

Reducir(n, d) ==
    LET g == Mcd(n, d)
    IN  IF g = 0 THEN <<0, 1>> ELSE <<n \div g, d \div g>>

FracMul(a, b) ==
    LET x == Reducir(a[1], b[2])
        y == Reducir(b[1], a[2])
    IN  <<x[1] * y[1], y[2] * x[2]>>
FracAdd(a, b) == Reducir(a[1] * b[2] + b[1] * a[2], a[2] * b[2])
FracDiv(a, b) == FracMul(a, <<b[2], b[1]>>)

\* abs(a - b) <= 0.001
Cerca(a, b) ==
    LET d == a[1] * b[2] - b[1] * a[2]
    IN  (IF d < 0 THEN 0 - d ELSE d) <= (a[2] * b[2]) \div 1000

\* variant for C28: recall written with the denominator of precision
metricas_manuales_recall_errado(cm) ==
    LET precision == IF cm.VP + cm.FP > 0 THEN <<cm.VP, cm.VP + cm.FP>> ELSE <<0, 1>>
        suma == FracAdd(precision, precision)
    IN  [precision |-> precision, recall |-> precision,
         f1_score |-> IF suma[1] > 0
                      THEN FracDiv(FracMul(<<2, 1>>, FracMul(precision, precision)),
                                   suma)
                      ELSE <<0, 1>>]

\* calculate_all, the manual metrics: precision, recall and F1 from the
\* cells of the matrix, 0 when a denominator is 0
metricas_manuales(cm) ==
    LET precision == IF cm.VP + cm.FP > 0 THEN <<cm.VP, cm.VP + cm.FP>> ELSE <<0, 1>>
        recall == IF cm.VP + cm.FN > 0 THEN <<cm.VP, cm.VP + cm.FN>> ELSE <<0, 1>>
        suma == FracAdd(precision, recall)
    IN  [precision |-> precision, recall |-> recall,
         f1_score |-> IF suma[1] > 0
                      THEN FracDiv(FracMul(<<2, 1>>, FracMul(precision, recall)),
                                   suma)
                      ELSE <<0, 1>>]

\* sklearn.metrics with zero_division=0 on binary labels (positive label 1):
\* the true positives over the predicted positives, over the real positives,
\* and twice the true positives over the sum of both
Positivos(y) == Cardinality({i \in 1..Len(y) : y[i] = 1})
AciertosPositivos(y_r, y_p) ==
    Cardinality({i \in 1..Len(y_r) : y_r[i] = 1 /\ y_p[i] = 1})

precision_score(y_r, y_p) ==
    IF Positivos(y_p) = 0 THEN <<0, 1>>
    ELSE <<AciertosPositivos(y_r, y_p), Positivos(y_p)>>

recall_score(y_r, y_p) ==
    IF Positivos(y_r) = 0 THEN <<0, 1>>
    ELSE <<AciertosPositivos(y_r, y_p), Positivos(y_r)>>

sklearn_f1(y_r, y_p) ==
    IF Positivos(y_r) + Positivos(y_p) = 0 THEN <<0, 1>>
    ELSE <<2 * AciertosPositivos(y_r, y_p), Positivos(y_r) + Positivos(y_p)>>

\* MIHACMetrics.calculate_all: the matrix, the manual metrics checked
\* against sklearn (raises: one of the three asserts fails and the caller
\* gets AssertionError), the rounded metrics and the asymmetric cost (in
\* ten-thousandths) and the counts by prediction
calculate_all(y_real, y_pred, scores) ==
    LET cm == confusion_matrix_data(y_real, y_pred)
        m == metricas_manuales(cm)
        verifica == /\ cm.total > 0
                    /\ Cardinality({y_real[i] : i \in 1..Len(y_real)}) > 1
    IN  [matriz |-> cm,
         raises |-> /\ verifica
                    /\ ~ /\ Cerca(m.precision, precision_score(y_real, y_pred))
                          /\ Cerca(m.recall, recall_score(y_real, y_pred))
                          /\ Cerca(m.f1_score, sklearn_f1(y_real, y_pred)),
         precision |-> RoundDiv4(m.precision[1], m.precision[2]),
         recall |-> RoundDiv4(m.recall[1], m.recall[2]),
         f1_score |-> RoundDiv4(m.f1_score[1], m.f1_score[2]),
         costo_asimetrico |->
             IF cm.total > 0
             THEN RoundDiv4(cm.FP * COSTO_FP + cm.FN * COSTO_FN, cm.total)
             ELSE 0,
         n_aprobados |-> Cardinality({i \in 1..Len(y_pred) : y_pred[i] = 1}),
         n_rechazados |-> Cardinality({i \in 1..Len(y_pred) : y_pred[i] = 0})]

\* the candidate thresholds of _analizar_umbrales
umbrales_test == <<70, 75, 78, 80, 82, 85, 88, 90>>

\* WeightCalibrator._analizar_umbrales: calculate_all on the predictions of
\* each candidate threshold, and the first threshold of least cost
analizar_umbrales(y_real, scores) ==
    LET y_pred_u(u) == [i \in 1..Len(scores) |-> IF scores[i] >= u THEN 1 ELSE 0]
        por_umbral == [k \in 1..Len(umbrales_test) |->
                          calculate_all(y_real, y_pred_u(umbrales_test[k]), scores)]
        optimo == CHOOSE k \in 1..Len(umbrales_test) :
                      /\ \A j \in 1..Len(umbrales_test) :
                             por_umbral[k].costo_asimetrico
                               <= por_umbral[j].costo_asimetrico
                      /\ \A j \in 1..(k - 1) :
                             por_umbral[j].costo_asimetrico
                               > por_umbral[k].costo_asimetrico
    IN  [raises |-> \E k \in 1..Len(umbrales_test) : por_umbral[k].raises,
         por_umbral |-> por_umbral,
         umbral_optimo_costo |-> umbrales_test[optimo],
         umbral_actual |-> 80]

\* round(x, 2) for x in ten-thousandths, half to even; the inputs keep off
\* the halves, where the binary expansion of the float decides
Round2(x) ==
    LET q == x \div 100
        r == x % 100
    IN  100 * (IF r > 50 \/ (r = 50 /\ q % 2 = 1) THEN q + 1 ELSE q)

\* var_a_peso: the weight an analysis variable maps to ("" for none)
var_a_peso(var) ==
    CASE var = "ingreso_mensual" -> "Ingreso_Mensual"
      [] var = "total_deuda_actual" -> "Total_Deuda_Actual"
      [] var = "edad" -> "Edad"
      [] var = "dti_mihac" -> "Total_Deuda_Actual"
      [] OTHER -> ""

\* the position of the weight named nombre in the ordered map, 0 if absent
Indice(pesos, nombre) ==
    IF \E i \in 1..Len(pesos) : pesos[i].nombre = nombre
    THEN CHOOSE i \in 1..Len(pesos) : pesos[i].nombre = nombre
    ELSE 0

\* the loop over variables_criticas from position i: weights in
\* ten-thousandths, criticidad in ten-thousandths, diff_fp_pct in tenths
RECURSIVE ajustar_desde(_, _, _, _)
ajustar_desde(pesos_nuevos, cambios, criticas, i) ==
    IF i > Len(criticas) THEN [pesos |-> pesos_nuevos, cambios |-> cambios]
    ELSE LET vc == criticas[i]
             k == Indice(pesos_nuevos, var_a_peso(vc.variable))
             ajuste == IF vc.diff_fp_pct > 150 THEN 0 - 200
                       ELSE IF vc.diff_fp_pct > 80 THEN 0 - 100 ELSE 0
             nuevo(peso_actual) == Round2(Max2(200, peso_actual + ajuste))
         IN  IF k = 0 \/ vc.criticidad < 5000 \/ ajuste = 0
             THEN ajustar_desde(pesos_nuevos, cambios, criticas, i + 1)
             ELSE ajustar_desde(
                      [pesos_nuevos EXCEPT ![k].peso = nuevo(@)],
                      Append(cambios,
                             [variable |-> pesos_nuevos[k].nombre,
                              peso_anterior |-> pesos_nuevos[k].peso,
                              peso_nuevo |-> nuevo(pesos_nuevos[k].peso),
                              ajuste |-> ajuste]),
                      criticas, i + 1)

\* max(pesos_nuevos, key=pesos_nuevos.get): the first of the largest
clave_redistribuir(pesos) ==
    CHOOSE k \in 1..Len(pesos) :
        /\ \A j \in 1..Len(pesos) : pesos[j].peso <= pesos[k].peso
        /\ \A j \in 1..(k - 1) : pesos[j].peso < pesos[k].peso

RECURSIVE SumaPesos(_)
SumaPesos(pesos) ==
    IF pesos = <<>> THEN 0 ELSE pesos[1].peso + SumaPesos(Tail(pesos))

\* variant for C21: the candidate of least cost proposed as it is
umbral_prop_sin_limite(umbral_opt) == umbral_opt

\* umbral_prop: the candidate kept within 3 points of the threshold 80
umbral_prop(umbral_opt) == Max2(77, Min2(83, umbral_opt))

\* WeightCalibrator.propose_adjustments on the loaded weights; max() of an
\* empty map raises ValueError
propose_adjustments(weights, analisis) ==
    LET pesos_actual == IF weights.tiene_pesos THEN weights.pesos ELSE <<>>
        a == ajustar_desde(pesos_actual, <<>>, analisis.variables_criticas, 1)
        delta == 10000 - SumaPesos(a.pesos)
        redistribuye == delta > 10 \/ delta < 0 - 10
        umbral_opt == IF analisis.tiene_umbral THEN analisis.umbral_optimo_costo
                      ELSE 80
    IN  IF redistribuye /\ a.pesos = <<>>
        THEN [raises |-> TRUE]
        ELSE [raises |-> FALSE,
              pesos_actuales |-> pesos_actual,
              pesos_nuevos |->
                  IF redistribuye
                  THEN [a.pesos EXCEPT ![clave_redistribuir(a.pesos)].peso =
                                           Round2(@ + delta)]
                  ELSE a.pesos,
              cambios_pesos |-> a.cambios,
              umbral_actual |-> 80,
              umbral_propuesto |-> umbral_prop(umbral_opt)]

Peso(nombre, peso) == [nombre |-> nombre, peso |-> peso]

\* weights.json as loaded: a file that is missing (as in this tree) or
\* malformed gives {}; weights of two decimals that add up to 1; weights
\* of three decimals; weights that do not add up to 1
SIN_PESOS == [tiene_pesos |-> FALSE, pesos |-> <<>>]
PESOS_BASE ==
    [tiene_pesos |-> TRUE,
     pesos |-> <<Peso("Ingreso_Mensual", 3000), Peso("Total_Deuda_Actual", 2500),
                 Peso("Historial_Crediticio", 2500),
                 Peso("Antiguedad_Laboral", 1700), Peso("Edad", 300)>>]
PESOS_MILESIMAS ==
    [tiene_pesos |-> TRUE,
     pesos |-> <<Peso("Ingreso_Mensual", 5000), Peso("Total_Deuda_Actual", 2530),
                 Peso("Edad", 2500)>>]
PESOS_INCOMPLETOS ==
    [tiene_pesos |-> TRUE,
     pesos |-> <<Peso("Ingreso_Mensual", 4000), Peso("Total_Deuda_Actual", 4000),
                 Peso("Edad", 1000)>>]
PesosCargados == {SIN_PESOS, PESOS_BASE, PESOS_MILESIMAS, PESOS_INCOMPLETOS}

\* entries of variables_criticas: below the criticality 0.5, and above it
\* with a difference under 8%, between 8% and 15%, over 15%
VariablesCriticas ==
    {[variable |-> v, criticidad |-> c[1], diff_fp_pct |-> c[2]] :
        v \in {"ingreso_mensual", "total_deuda_actual", "edad", "dti_mihac",
               "monto_credito"},
        c \in {<<4000, 200>>, <<6000, 50>>, <<6000, 100>>, <<6000, 200>>}}

\* the analyses passed to propose_adjustments: umbrales_analisis without
\* umbral_optimo_costo (u = 0), or with any candidate of the sweep
Analisis ==
    {[variables_criticas |-> vcs, tiene_umbral |-> u # 0, umbral_optimo_costo |-> u] :
        vcs \in UNION {[1..n -> VariablesCriticas] : n \in 0..MaxCriticas},
        u \in {0} \cup {umbrales_test[k] : k \in 1..Len(umbrales_test)}}

ProposeAdjustments(weights, analisis) ==
    Llamada("propose_adjustments", [weights |-> weights, analisis |-> analisis],
            propose_adjustments(weights, analisis))

\* simulate, the summary: Apply only on a negative delta of the rounded cost
recomendar(delta_costo) ==
    IF delta_costo < 0 THEN "APLICAR" ELSE "MANTENER"

\* simulate, y_pred_actual: 1 for the records the engine approved
predicciones_actuales(resultados) ==
    [i \in 1..Len(resultados) |->
        IF resultados[i].dictamen = "APROBADO" THEN 1 ELSE 0]

\* WeightCalibrator.simulate with rule list rs on disk and the log file
\* registro: a new engine evaluates every record (each valid one adds its
\* line to the log), the metrics of the engine's own dictamen and of
\* score >= umbral_nuevo are compared, the deltas are rounded to 4 places
simulate(rs, registro, falla_log, propuestas, datos_mihac, y_real) ==
    LET N == Len(datos_mihac)
        umbral_nuevo == GetDef(propuestas, "umbral_propuesto", 80)
        compara(y_pred_actual, y_pred_nuevo, antes, despues) ==
            [raises |-> antes.raises \/ despues.raises,
             y_pred_actual |-> y_pred_actual,
             y_pred_nuevo |-> y_pred_nuevo,
             metricas_antes |-> antes,
             metricas_despues |-> despues,
             deltas |-> [costo_asimetrico |->
                             despues.costo_asimetrico - antes.costo_asimetrico,
                         f1_score |-> despues.f1_score - antes.f1_score],
             umbral_antes |-> 80,
             umbral_despues |-> umbral_nuevo,
             mejora_costo |-> despues.costo_asimetrico - antes.costo_asimetrico < 0,
             mejora_f1 |-> despues.f1_score - antes.f1_score >= 0,
             recomendacion |->
                 recomendar(despues.costo_asimetrico - antes.costo_asimetrico)]
        mide(scores, y_pred_actual, y_pred_nuevo) ==
            compara(y_pred_actual, y_pred_nuevo,
                    calculate_all(y_real, y_pred_actual, scores),
                    calculate_all(y_real, y_pred_nuevo, scores))
        con(resultados, lineas) ==
            [log |-> registro \o [k \in 1..Len(lineas) |-> lineas[k][1]],
             res |-> mide([i \in 1..N |-> resultados[i].score_final],
                          SubSeq(predicciones_actuales(resultados), 1, N),
                          SubSeq([i \in 1..N |->
                                     IF resultados[i].score_final >= umbral_nuevo
                                     THEN 1 ELSE 0], 1, N))]
        evaluados(es) ==
            con([i \in 1..N |-> es[i].res],
                SelectSeq([i \in 1..N |-> es[i].m.log], LAMBDA l : l # <<>>))
    IN  evaluados(SubSeq([i \in 1..N |->
                             evaluate(MotorInicial, rs, datos_mihac[i], falla_log)],
                         1, N))

\* labels: 1 = good payer / approved, 0 = bad payer / not approved
Etiquetas == {0, 1}

\* profiles that score 78 and 82 (without rules), and 82 on an amount over
\* 20000, where the engine's threshold is 85
PERFIL_78 == [CASO_IDEAL EXCEPT !.antiguedad_laboral = IntV(2),
                                !.numero_dependientes = IntV(3)]
PERFIL_82 == [CASO_IDEAL EXCEPT !.numero_dependientes = IntV(3)]
PERFIL_82_MONTO_ALTO == [PERFIL_82 EXCEPT !.monto_credito = FloatV(4500000)]

\* the records of a simulated dataset: approved, under and over the
\* threshold, and one that fails validation
EntradasSimulate ==
    {CASO_IDEAL, PERFIL_78, PERFIL_82, PERFIL_82_MONTO_ALTO, DATOS_VACIOS}

\* a dataset of 10001 labelled records: PERFIL_78 with a good payer, then
\* records without data, 5000 of good payers and 5000 of bad ones
N_GRANDE == 10001
DATOS_GRANDE == [i \in 1..N_GRANDE |-> IF i = 1 THEN PERFIL_78 ELSE DATOS_VACIOS]
Y_REAL_GRANDE == [i \in 1..N_GRANDE |-> IF i <= 5001 THEN 1 ELSE 0]

\* the proposals simulate receives: without umbral_propuesto, or with a
\* threshold within the limits of propose_adjustments
Propuestas ==
    {[cambios_pesos |-> <<>>]}
      \cup {[cambios_pesos |-> <<>>, umbral_propuesto |-> u] : u \in {77, 80, 83}}

\* cal.simulate(propuestas, datos_mihac, y_real)
Simulate(propuestas, datos_mihac, y_real) ==
    LET retorna(r) ==
            /\ log' = r.log
            /\ call' = [op |-> "simulate",
                        arg |-> [propuestas |-> propuestas,
                                 datos_mihac |-> datos_mihac, y_real |-> y_real],
                        res |-> r.res]
    IN  /\ retorna(simulate(reglas, log, ~log_escribible, propuestas,
                            datos_mihac, y_real))
        /\ UNCHANGED <<reglas, total_evaluaciones, aprobados, rechazados,
                       revision_manual, suma_scores, suma_dti, log_escribible,
                       hilos>>
        /\ CalibradorIgual

CalculateAll(y_real, y_pred) ==
    Llamada("calculate_all", [y_real |-> y_real, y_pred |-> y_pred],
            calculate_all(y_real, y_pred, <<>>))

\* scores around the candidate thresholds
Puntajes == {69, 80, 87, 90}

\* vectors of up to MaxCasos elements of S
Vectores(S) == UNION {[1..n -> S] : n \in 0..MaxCasos}

ConfusionMatrixData(y_real, y_pred) ==
    Llamada("confusion_matrix_data", [y_real |-> y_real, y_pred |-> y_pred],
            confusion_matrix_data(y_real, y_pred))

AnalizarUmbrales(y_real, scores) ==
    Llamada("analizar_umbrales", [y_real |-> y_real, scores |-> scores],
            analizar_umbrales(y_real, scores))

NextValidacion ==
    \/ PrimeraLlamada
       /\ \E y_real \in Vectores(Etiquetas) :
             \E y_pred \in [1..Len(y_real) -> Etiquetas] :
                 ConfusionMatrixData(y_real, y_pred)
    \/ PrimeraLlamada
       /\ \E y_real \in Vectores(Etiquetas) :
             \E scores \in [1..Len(y_real) -> Puntajes] :
                 AnalizarUmbrales(y_real, scores)
    \/ PrimeraLlamada
       /\ \E weights \in PesosCargados, analisis \in Analisis :
              ProposeAdjustments(weights, analisis)
    \/ PrimeraLlamada
       /\ \E y_real \in Vectores(Etiquetas) :
             \E y_pred \in [1..Len(y_real) -> Etiquetas] :
                 CalculateAll(y_real, y_pred)
    \/ PrimeraLlamada
       /\ \E casos \in UNION {[1..n -> EntradasSimulate \X Etiquetas] :
                                  n \in 0..MaxRegistros},
              propuestas \in Propuestas :
              Simulate(propuestas, [i \in 1..Len(casos) |-> casos[i][1]],
                       [i \in 1..Len(casos) |-> casos[i][2]])
    \/ PrimeraLlamada
       /\ Simulate([cambios_pesos |-> <<>>, umbral_propuesto |-> 77],
                   DATOS_GRANDE, Y_REAL_GRANDE)

\* the engine of this tree: no rules file, so an empty rule set
InitValidacion == Init /\ reglas = <<>>

SpecValidacion == InitValidacion /\ [][NextValidacion]_vars

\* ------------------------------------------------------------------------
\* Calibration: the calls on one WeightCalibrator, and the pipeline of
\* run_calibration.main (validation/calibrator.py,
\* validation/run_calibration.py)
\* ------------------------------------------------------------------------
MaxAplicaciones == 2  \* overwrites of weights.json in one behaviour

\* a weights.json with "_meta" and "pesos"
ConMeta(w, version) ==
    [tiene_pesos |-> w.tiene_pesos, pesos |-> w.pesos, tiene_meta |-> TRUE,
     version |-> version, cambios |-> <<>>]

CONFIG_V1 == ConMeta(PESOS_BASE, "v1")
CONFIG_INCOMPLETA == ConMeta(PESOS_INCOMPLETOS, "v1")
CONFIG_SIN_META == [VACIO EXCEPT !.tiene_pesos = TRUE, !.pesos = PESOS_BASE.pesos]

\* the knowledge directory before calibration: no weights.json (as in this
\* tree), one that is not JSON, and well-formed ones
Conocimientos ==
    {[SIN_CONOCIMIENTO EXCEPT ![WEIGHTS] = a] :
        a \in {Ausente, JsonInvalido, Json(CONFIG_V1), Json(CONFIG_INCOMPLETA),
               Json(CONFIG_SIN_META)}}

\* analyze_errors on the backtesting results: the threshold sweep over
\* y_real and score_mihac; the statistics of the error groups are not
\* computed, criticas is the list _identificar_variables_criticas returns
analyze_errors(y_real, scores, criticas) ==
    LET con(sweep) ==
            [raises |-> sweep.raises, total |-> Len(y_real),
             variables_criticas |-> criticas, tiene_umbral |-> TRUE,
             umbral_optimo_costo |-> sweep.umbral_optimo_costo]
    IN  con(analizar_umbrales(y_real, scores))

\* variant for C27: adjustments written into the loaded weight map
propose_adjustments_self_en_sitio(weights, propuestas) ==
    IF propuestas.raises THEN weights
    ELSE [weights EXCEPT !.pesos = propuestas.pesos_nuevos]

\* self._weights after propose_adjustments, which works on pesos_actual, a
\* new dict of the loaded numbers, and on its copy pesos_nuevos
propose_adjustments_self(weights, propuestas) == weights

\* generate_report: the lines that depend on the proposals and on the
\* comparison
generate_report(analisis, propuestas, comparacion) ==
    [total |-> analisis.total,
     cambios |-> Len(GetDef(propuestas, "cambios_pesos", <<>>)),
     umbral |-> <<propuestas.umbral_actual, propuestas.umbral_propuesto>>,
     recomendacion |-> IF comparacion.recomendacion = "APLICAR"
                       THEN "APLICAR" ELSE "MANTENER"]

\* variant for C24: the backup taken after weights.json has been written
apply_weights_respaldo_tardio(dir, weights, propuestas, backup, falla_respaldo, falla_escritura) ==
    LET pesos_nuevos == GetDef(propuestas, "pesos_nuevos", <<>>)
        nuevos ==
            [weights EXCEPT
                !.pesos = [k \in 1..Len(weights.pesos) |->
                              IF Indice(pesos_nuevos, weights.pesos[k].nombre) # 0
                              THEN pesos_nuevos[Indice(pesos_nuevos,
                                                       weights.pesos[k].nombre)]
                              ELSE weights.pesos[k]],
                !.version = "v2 (calibrada)",
                !.cambios = GetDef(propuestas, "cambios_pesos", <<>>)]
    IN  IF ~weights.tiene_meta \/ falla_escritura
        THEN [raises |-> TRUE, archivos |-> dir, weights |-> weights,
              escrituras |-> <<>>]
        ELSE [raises |-> FALSE,
              archivos |-> [dir EXCEPT ![WEIGHTS] = Json(nuevos),
                                       ![BACKUP] = IF backup THEN Json(nuevos)
                                                   ELSE @],
              weights |-> nuevos,
              escrituras |-> IF backup THEN <<WEIGHTS, BACKUP>> ELSE <<WEIGHTS>>]

\* WeightCalibrator.apply_weights on the directory dir with self._weights =
\* weights.  With backup, weights.json is read (it raises when the file is
\* missing or not JSON) and written to the backup path; then the proposed
\* weights and the metadata go into a copy of self._weights (KeyError
\* without "_meta"), which is written over weights.json and kept as
\* self._weights.  falla_respaldo, falla_escritura: the open for writing
\* of the backup, of weights.json, fails.  escrituras lists the files
\* written, in order; the date of the calibration is left out.
apply_weights(dir, weights, propuestas, backup, falla_respaldo, falla_escritura) ==
    LET pesos_nuevos == GetDef(propuestas, "pesos_nuevos", <<>>)
        nuevos ==
            [weights EXCEPT
                !.pesos = [k \in 1..Len(weights.pesos) |->
                              IF Indice(pesos_nuevos, weights.pesos[k].nombre) # 0
                              THEN pesos_nuevos[Indice(pesos_nuevos,
                                                       weights.pesos[k].nombre)]
                              ELSE weights.pesos[k]],
                !.version = "v2 (calibrada)",
                !.cambios = GetDef(propuestas, "cambios_pesos", <<>>)]
        aplicar(d, escrituras) ==
            IF ~weights.tiene_meta \/ falla_escritura
            THEN [raises |-> TRUE, archivos |-> d, weights |-> weights,
                  escrituras |-> escrituras]
            ELSE [raises |-> FALSE, archivos |-> [d EXCEPT ![WEIGHTS] = Json(nuevos)],
                  weights |-> nuevos, escrituras |-> Append(escrituras, WEIGHTS)]
    IN  IF ~backup THEN aplicar(dir, <<>>)
        ELSE IF dir[WEIGHTS].clase # "json" \/ falla_respaldo
        THEN [raises |-> TRUE, archivos |-> dir, weights |-> weights,
              escrituras |-> <<>>]
        ELSE aplicar([dir EXCEPT ![BACKUP] = Json(dir[WEIGHTS].data)], <<BACKUP>>)

\* a call on the calibrator that leaves the engine, the directory, the
\* approval and the pipeline as they are
LlamadaCal(op, arg, res, weights) ==
    /\ call' = [op |-> op, arg |-> arg, res |-> res]
    /\ cal_weights' = weights
    /\ MotorIgual
    /\ UNCHANGED <<reglas, log_escribible, hilos, archivos, aprobacion, main,
                   anteriores>>

\* cal.analyze_errors(results_df)
AnalyzeErrors(y_real, scores, criticas) ==
    LlamadaCal("analyze_errors", [y_real |-> y_real, scores |-> scores],
               analyze_errors(y_real, scores, criticas), cal_weights)

\* cal.propose_adjustments(analisis)
ProposeAdjustmentsCal(analisis) ==
    LET retorna(propuestas) ==
            LlamadaCal("propose_adjustments", [analisis |-> analisis], propuestas,
                       propose_adjustments_self(cal_weights, propuestas))
    IN  retorna(propose_adjustments(cal_weights, analisis))

\* cal.simulate(propuestas, datos_mihac, y_real)
SimulateCal(propuestas, datos_mihac, y_real) ==
    /\ Len(log) + Len(datos_mihac) <= MaxLog
    /\ Simulate(propuestas, datos_mihac, y_real)

\* cal.generate_report(analisis, propuestas, comparacion)
GenerateReport(analisis, propuestas, comparacion) ==
    LlamadaCal("generate_report",
               [analisis |-> analisis, propuestas |-> propuestas,
                comparacion |-> comparacion],
               generate_report(analisis, propuestas, comparacion), cal_weights)

\* cal.apply_weights(propuestas, backup)
ApplyWeights(propuestas, backup, falla_respaldo, falla_escritura) ==
    LET retorna(r) ==
            /\ archivos' = r.archivos
            /\ cal_weights' = r.weights
            /\ anteriores' = IF r.raises THEN anteriores
                             ELSE Append(anteriores,
                                         [config |-> archivos[WEIGHTS],
                                          backup |-> backup])
            /\ call' = [op |-> "apply_weights",
                        arg |-> [propuestas |-> propuestas, backup |-> backup,
                                 antes |-> archivos],
                        res |-> [raises |-> r.raises, escrituras |-> r.escrituras]]
    IN  /\ Len(anteriores) < MaxAplicaciones
        /\ retorna(apply_weights(archivos, cal_weights, propuestas, backup,
                                 falla_respaldo, falla_escritura))
        /\ MotorIgual
        /\ UNCHANGED <<reglas, log_escribible, hilos, aprobacion, main>>

\* the user approves the proposals the pipeline has printed
Aprobar ==
    /\ main.propuestas # <<>>
    /\ ~aprobacion
    /\ aprobacion' = TRUE
    /\ MotorIgual
    /\ UNCHANGED <<reglas, log_escribible, hilos, call, archivos, cal_weights,
                   main, anteriores>>

\* lists of critical variables: none, and one that changes a weight
CriticasCal ==
    {<<>>,
     <<[variable |-> "ingreso_mensual", criticidad |-> 6000, diff_fp_pct |-> 200]>>}

AnalisisCal ==
    {[total |-> 2, variables_criticas |-> vcs, tiene_umbral |-> TRUE,
      umbral_optimo_costo |-> IF vcs = <<>> THEN 80 ELSE 70] : vcs \in CriticasCal}

\* the proposals a caller holds: those propose_adjustments returns on the
\* loaded weights, and a dict without pesos_nuevos
PropuestasCal ==
    {propose_adjustments(cal_weights, a) : a \in AnalisisCal}

ComparacionesCal ==
    {[recomendacion |-> r] : r \in {"APLICAR", "MANTENER"}}

NextCalibracion ==
    \/ \E y_real \in {<<1, 0>>}, scores \in {<<82, 78>>},
          criticas \in CriticasCal :
          AnalyzeErrors(y_real, scores, criticas)
    \/ \E analisis \in AnalisisCal : ProposeAdjustmentsCal(analisis)
    \/ \E propuestas \in PropuestasCal, dato \in {PERFIL_78}, y \in Etiquetas :
          ~propuestas.raises /\ SimulateCal(propuestas, <<dato>>, <<y>>)
    \/ \E propuestas \in PropuestasCal, comparacion \in ComparacionesCal :
          /\ ~propuestas.raises
          /\ GenerateReport([total |-> 2], propuestas, comparacion)
    \/ \E propuestas \in PropuestasCal \cup {[cambios_pesos |-> <<>>]},
          backup \in BOOLEAN, falla_respaldo \in BOOLEAN,
          falla_escritura \in BOOLEAN :
          /\ "raises" \in DOMAIN propuestas => ~propuestas.raises
          /\ ApplyWeights(propuestas, backup, falla_respaldo, falla_escritura)

\* an engine without rules file and a calibrator over one of the directories
InitCalibracion ==
    /\ InitEngine
    /\ reglas = <<>>
    /\ \E a \in Conocimientos : InitCalibrador(a)

SpecCalibracion == InitCalibracion /\ [][NextCalibracion]_vars

\* ------------------------------------------------------------------------
\* run_calibration.main, one step per phase.  main.pc is the phase to run
\* next; an exception that leaves main ends it in "abortado".
\* ------------------------------------------------------------------------
\* Backtester.run: a new engine evaluates every record (each valid one adds
\* its line to the log); score_mihac and y_pred of results_df
backtest(rs, registro, falla_log, datos_mihac) ==
    LET N == Len(datos_mihac)
        con(resultados, lineas) ==
            [log |-> registro \o [k \in 1..Len(lineas) |-> lineas[k][1]],
             scores |-> SubSeq([i \in 1..N |-> resultados[i].score_final], 1, N),
             y_pred |-> SubSeq(predicciones_actuales(resultados), 1, N)]
        evaluados(es) ==
            con([i \in 1..N |-> es[i].res],
                SelectSeq([i \in 1..N |-> es[i].m.log], LAMBDA l : l # <<>>))
    IN  evaluados(SubSeq([i \in 1..N |->
                             evaluate(MotorInicial, rs, datos_mihac[i], falla_log)],
                         1, N))

\* a phase of main: the call it makes, the locals and the files after it
PasoMain(op, res, locales, registro, dir, weights, overwrites) ==
    /\ call' = [op |-> op, arg |-> <<>>, res |-> res]
    /\ main' = locales
    /\ log' = registro
    /\ archivos' = dir
    /\ cal_weights' = weights
    /\ anteriores' = overwrites
    /\ UNCHANGED <<reglas, total_evaluaciones, aprobados, rechazados,
                   revision_manual, suma_scores, suma_dti, log_escribible,
                   hilos, aprobacion>>

\* FASE 1: bt = Backtester(); bt.run() on the labelled dataset
Fase1(datos_mihac, y_real) ==
    LET sigue(r) ==
            PasoMain("backtest", [scores |-> r.scores, y_pred |-> r.y_pred],
                     [main EXCEPT !.pc = "fase2", !.datos_mihac = datos_mihac,
                                  !.y_real = y_real, !.scores = r.scores],
                     r.log, archivos, cal_weights, anteriores)
    IN  /\ main.pc = "fase1"
        /\ sigue(backtest(reglas, log, ~log_escribible, datos_mihac))

\* FASE 2: cal = WeightCalibrator(); cal.analyze_errors(bt.results_df)
Fase2(criticas) ==
    LET sigue(analisis) ==
            PasoMain("analyze_errors", analisis,
                     [main EXCEPT !.pc = IF analisis.raises THEN "abortado"
                                         ELSE "fase3",
                                  !.analisis = analisis],
                     log, archivos, load_json(archivos[WEIGHTS]), anteriores)
    IN  /\ main.pc = "fase2"
        /\ sigue(analyze_errors(main.y_real, main.scores, criticas))

\* FASE 3: cal.propose_adjustments(analisis)
Fase3 ==
    LET sigue(propuestas) ==
            PasoMain("propose_adjustments", propuestas,
                     [main EXCEPT !.pc = IF propuestas.raises THEN "abortado"
                                         ELSE "fase4",
                                  !.propuestas = IF propuestas.raises THEN <<>>
                                                 ELSE propuestas],
                     log, archivos,
                     propose_adjustments_self(cal_weights, propuestas), anteriores)
    IN  /\ main.pc = "fase3"
        /\ sigue(propose_adjustments(cal_weights, main.analisis))

\* FASE 4: cal.simulate(propuestas, datos_mihac, y_real) on the same dataset
Fase4 ==
    LET sigue(r) ==
            PasoMain("simulate", r.res,
                     [main EXCEPT !.pc = IF r.res.raises THEN "abortado"
                                         ELSE "fase5",
                                  !.comparacion = r.res],
                     r.log, archivos, cal_weights, anteriores)
    IN  /\ main.pc = "fase4"
        /\ sigue(simulate(reglas, log, ~log_escribible, main.propuestas,
                          main.datos_mihac, main.y_real))

\* FASE 5: cal.generate_report(...), printed and saved under reports/
Fase5 ==
    /\ main.pc = "fase5"
    /\ PasoMain("generate_report",
                generate_report(main.analisis, main.propuestas, main.comparacion),
                [main EXCEPT !.pc = "fase6"], log, archivos, cal_weights,
                anteriores)

\* FASE 6: cal.apply_weights(propuestas, backup=True)
Fase6(falla_respaldo, falla_escritura) ==
    LET sigue(r) ==
            PasoMain("apply_weights",
                     [raises |-> r.raises, escrituras |-> r.escrituras],
                     [main EXCEPT !.pc = IF r.raises THEN "abortado" ELSE "fin"],
                     log, r.archivos, r.weights,
                     IF r.raises THEN anteriores
                     ELSE Append(anteriores, [config |-> archivos[WEIGHTS],
                                              backup |-> TRUE]))
    IN  /\ main.pc = "fase6"
        /\ sigue(apply_weights(archivos, cal_weights, main.propuestas, TRUE,
                               falla_respaldo, falla_escritura))

\* the labelled datasets of the pipeline
DatasetsMain ==
    [1..MaxRegistros -> {PERFIL_78, PERFIL_82, DATOS_VACIOS} \X Etiquetas]

NextMain ==
    \/ \E d \in DatasetsMain :
          Fase1([i \in DOMAIN d |-> d[i][1]], [i \in DOMAIN d |-> d[i][2]])
    \/ \E criticas \in CriticasCal : Fase2(criticas)
    \/ Fase3
    \/ Fase4
    \/ Fase5
    \/ \E falla_respaldo \in BOOLEAN, falla_escritura \in BOOLEAN :
          Fase6(falla_respaldo, falla_escritura)
    \/ Aprobar

SpecMain == InitCalibracion /\ [][NextMain]_vars

\* ------------------------------------------------------------------------
\* Concurrent requests: the web application keeps one engine per process
\* and every request thread calls evaluate on it.  Nothing synchronises
\* the calls, so the statements of _actualizar_stats of two calls
\* interleave between the read and the store of each +=.
\* ------------------------------------------------------------------------
EntradasConcurrentes ==
    {CASO_IDEAL, CASO_RIESGO, CASO_GRIS, DATOS_CAMPOS_FALTANTES}

\* thread h calls evaluate(datos): steps 1 to 8, up to the log line
Entrar(h, datos) ==
    LET sigue(e) ==
            /\ hilos' = [hilos EXCEPT ![h] =
                            [pc |-> IF e.res.errores_validacion = <<>>
                                    THEN "leer" ELSE "fin",
                             k |-> 1, leidos |-> <<>>, resultado |-> e.res]]
            /\ log' = e.m.log
    IN  /\ hilos[h].pc = "libre"
        /\ sigue(evaluate(Motor, reglas, datos, ~log_escribible))
        /\ UNCHANGED <<reglas, total_evaluaciones, aprobados, rechazados,
                       revision_manual, suma_scores, suma_dti, log_escribible,
                       call>>
        /\ CalibradorIgual

\* thread h reads the attribute of its next += of _actualizar_stats
Leer(h) ==
    /\ hilos[h].pc = "leer"
    /\ hilos' = [hilos EXCEPT
                    ![h].pc = "escribir",
                    ![h].leidos =
                        Append(@, Motor[sentencias_stats(hilos[h].resultado)
                                            [hilos[h].k]])]
    /\ MotorIgual
    /\ UNCHANGED <<reglas, log_escribible, call>>
    /\ CalibradorIgual

\* thread h stores the sum; after the last statement evaluate returns
Escribir(h) ==
    LET t == hilos[h]
        ss == sentencias_stats(t.resultado)
    IN  /\ t.pc = "escribir"
        /\ PonerMotor(escribir_campo(Motor, ss[t.k], t.leidos[t.k], t.resultado))
        /\ hilos' = [hilos EXCEPT
                        ![h].pc = IF t.k = Len(ss) THEN "fin" ELSE "leer",
                        ![h].k = IF t.k = Len(ss) THEN t.k ELSE t.k + 1]
        /\ UNCHANGED <<reglas, log_escribible, call>>
        /\ CalibradorIgual

NextConcurrente ==
    \/ \E h \in Hilos, datos \in EntradasConcurrentes : Entrar(h, datos)
    \/ \E h \in Hilos : Leer(h)
    \/ \E h \in Hilos : Escribir(h)

SpecConcurrente == Init /\ [][NextConcurrente]_vars

\* ------------------------------------------------------------------------
\* Properties
\* ------------------------------------------------------------------------
\* the result of the evaluate call a state records
Resultado == call.res.resultado

CamposResultado ==
    {"score_final", "dti_ratio", "dti_clasificacion", "sub_scores", "dictamen",
     "umbral_aplicado", "reglas_activadas", "compensaciones",
     "reporte_explicacion", "errores_validacion"}

Dictamenes == {"APROBADO", "REVISION_MANUAL", "RECHAZADO"}

\* the decision the three-way rule gives for a class that is not Critical
Relacion(score, umbral, dictamen) ==
    /\ dictamen = "APROBADO" <=> score >= umbral
    /\ dictamen = "REVISION_MANUAL" <=> (umbral - 20 <= score /\ score < umbral)
    /\ dictamen = "RECHAZADO" <=> score < umbral - 20

\* C1: get_dictamen with class CRITICO answers RECHAZADO whatever the score
\* and the threshold, and every evaluate result whose class is CRITICO has
\* dictamen RECHAZADO, for every input and rule set.
C1_CriticoRechazado ==
    /\ (call.op = "get_dictamen" /\ call.arg.dti_clasificacion = "CRITICO")
           => call.res = "RECHAZADO"
    /\ (call.op = "evaluate" /\ Resultado.dti_clasificacion = "CRITICO")
           => Resultado.dictamen = "RECHAZADO"

\* an applicant whose rules lift the score to 100, rejected for a Critical DTI
C1_Witness ==
    /\ call.op = "evaluate"
    /\ Resultado.dti_clasificacion = "CRITICO"
    /\ Resultado.score_final = 100
    /\ Resultado.errores_validacion = <<>>
    /\ Resultado.dictamen = "RECHAZADO"

\* C2: for a class other than CRITICO get_dictamen answers APROBADO iff
\* score >= umbral, REVISION_MANUAL iff umbral - 20 <= score < umbral and
\* RECHAZADO iff score < umbral - 20; the answer is always one of the three,
\* and every error-free evaluate result relates its score_final,
\* umbral_aplicado, dti_clasificacion and dictamen in this way.
C2_RelacionDictamen ==
    /\ call.op = "get_dictamen" =>
           /\ call.res \in Dictamenes
           /\ call.arg.dti_clasificacion # "CRITICO" =>
                  Relacion(call.arg.score, call.arg.umbral, call.res)
    /\ (call.op = "evaluate" /\ Resultado.errores_validacion = <<>>) =>
           /\ Resultado.dictamen \in Dictamenes
           /\ Resultado.dti_clasificacion # "CRITICO" =>
                  Relacion(Resultado.score_final, Resultado.umbral_aplicado,
                           Resultado.dictamen)
           /\ Resultado.dti_clasificacion = "CRITICO" =>
                  Resultado.dictamen = "RECHAZADO"

\* an error-free evaluation that ends in manual review
C2_Witness ==
    /\ call.op = "evaluate"
    /\ Resultado.errores_validacion = <<>>
    /\ Resultado.dti_clasificacion # "CRITICO"
    /\ Resultado.dictamen = "REVISION_MANUAL"

\* the sanitized input of the recorded evaluate call passed validation
PasaValidacion ==
    /\ call.op = "evaluate"
    /\ ~sanitize_raises(call.arg)
    /\ validate(sanitize(call.arg)).valido

EnCaps(sub_scores) ==
    /\ sub_scores.solvencia \in 0..40
    /\ sub_scores.estabilidad \in 0..30
    /\ sub_scores.historial_score \in 0..20
    /\ sub_scores.perfil \in 0..10

\* C3: for every input that passes validation and every rule set, evaluate
\* returns 0 <= score_final <= 100 and sub-scores within 0..40, 0..30, 0..20
\* and 0..10; the same holds of calculate_subscores and calculate_final_score
\* called on their own.
C3_ScoreYCaps ==
    /\ PasaValidacion =>
           /\ Resultado.score_final \in 0..100
           /\ EnCaps(Resultado.sub_scores)
    /\ call.op = "calculate_subscores" => EnCaps(call.res)
    /\ call.op = "calculate_final_score" => call.res.score \in 0..100

\* a valid applicant whose fired impacts exceed what the score can hold
C3_Witness ==
    /\ PasaValidacion
    /\ reglas = REGLAS_EXTREMAS
    /\ Len(Resultado.reglas_activadas) >= 2
    /\ Resultado.sub_scores.solvencia < 40
    /\ Resultado.score_final = 100

\* C4: calculate_final_score applies threshold 85 iff the amount is strictly
\* greater than 20000 and 80 otherwise (20000.00 gives 80, 20000.01 gives 85),
\* and umbral_aplicado of every error-free evaluate result follows the rule.
C4_Umbral ==
    /\ call.op = "calculate_final_score" =>
           /\ call.res.umbral = (IF Gt(call.arg.monto_credito, IntV(20000))
                                 THEN 85 ELSE 80)
           /\ call.arg.monto_credito = FloatV(2000000) => call.res.umbral = 80
           /\ call.arg.monto_credito = FloatV(2000001) => call.res.umbral = 85
    /\ (call.op = "evaluate" /\ Resultado.errores_validacion = <<>>) =>
           Resultado.umbral_aplicado =
               (IF Gt(sanitize(call.arg).monto_credito, IntV(20000))
                THEN 85 ELSE 80)

\* an evaluation for 20000.01, one cent above the limit
C4_Witness ==
    /\ call.op = "evaluate"
    /\ Resultado.errores_validacion = <<>>
    /\ call.arg.monto_credito = FloatV(2000001)
    /\ Resultado.umbral_aplicado = 85

\* C5: calculate_dti classifies the ratio rounded to 4 decimals with
\* right-exclusive boundaries (below 0.25 BAJO, from 0.25 MODERADO, from 0.40
\* ALTO, from 0.60 CRITICO), and for an income of zero or less it returns
\* ratio 1.0 and class CRITICO.  The ratio is the quotient rounded to the
\* nearest ten-thousandth (stated for whole amounts, where 10^4 * debt fits).
C5_ClasificacionDti ==
    call.op = "calculate_dti" =>
        LET ingreso == call.arg.ingreso_mensual
            deuda == call.arg.total_deuda
            q == call.res.dti
            c == call.res.clasif
        IN  /\ Le(ingreso, IntV(0)) => (q = Dec4V(10000) /\ c = "CRITICO")
            /\ (~Le(ingreso, IntV(0)) /\ IsFinite(ingreso)) =>
                   /\ q.t = "dec4"
                   /\ q.n < 2500 => c = "BAJO"
                   /\ (2500 <= q.n /\ q.n < 4000) => c = "MODERADO"
                   /\ (4000 <= q.n /\ q.n < 6000) => c = "ALTO"
                   /\ q.n >= 6000 => c = "CRITICO"
                   /\ (IsInt(ingreso) /\ IsInt(deuda)) =>
                          /\ 2 * (q.n * ingreso.n - 10000 * deuda.n) <= ingreso.n
                          /\ 2 * (10000 * deuda.n - q.n * ingreso.n) <= ingreso.n
            /\ (ingreso = FloatV(1000000) /\ deuda = FloatV(249949)) =>
                   q = Dec4V(2499)
            /\ (ingreso = FloatV(1000000) /\ deuda = FloatV(249951)) =>
                   q = Dec4V(2500)

\* a debt of exactly a quarter of the income
C5_Witness ==
    /\ call.op = "calculate_dti"
    /\ call.arg.ingreso_mensual = IntV(10000)
    /\ call.arg.total_deuda = IntV(2500)
    /\ call.res = [dti |-> Dec4V(2500), clasif |-> "MODERADO"]

\* the sanitized input of the recorded evaluate call failed validation
FallaValidacion ==
    /\ call.op = "evaluate"
    /\ ~sanitize_raises(call.arg)
    /\ ~validate(sanitize(call.arg)).valido

\* C6: when validation of the sanitized input fails, evaluate returns
\* RECHAZADO, score 0 and the validator's error list (same entries, same
\* order), and runs no step after validate: no scoring, no rules.
C6_EntradaInvalida ==
    FallaValidacion =>
        /\ Resultado.dictamen = "RECHAZADO"
        /\ Resultado.score_final = 0
        /\ Resultado.errores_validacion = validate(sanitize(call.arg)).errores
        /\ Resultado.errores_validacion # <<>>
        /\ call.res.pasos = <<"sanitize", "validate">>
        /\ Resultado.reglas_activadas = <<>>
        /\ Resultado.sub_scores = [solvencia |-> 0, estabilidad |-> 0,
                                   historial_score |-> 0, perfil |-> 0]

\* an input with several violations at once
C6_Witness ==
    /\ FallaValidacion
    /\ Len(Resultado.errores_validacion) >= 9
    /\ Resultado.dictamen = "RECHAZADO"

\* every result has the ten fields, and its sub-scores the four
Completo(resultado) ==
    /\ DOMAIN resultado = CamposResultado
    /\ DOMAIN resultado.sub_scores =
           {"solvencia", "estabilidad", "historial_score", "perfil"}

\* C7 (amended): evaluate returns a complete result for every argument and
\* rule set; an exception raised by sanitize, calculate_dti,
\* calculate_subscores, apply_rules or calculate_final_score gives RECHAZADO
\* with score 0 and exactly one "Error interno" entry; a failed log write is
\* absorbed by _log_evaluation and the call returns its normal error-free
\* result, counted in the session.
C7_ErrorInterno ==
    call.op = "evaluate" =>
        /\ Completo(Resultado)
        /\ call.res.excepcion # "" =>
               /\ Resultado.dictamen = "RECHAZADO"
               /\ Resultado.score_final = 0
               /\ Len(Resultado.errores_validacion) = 1
               /\ Resultado.errores_validacion[1][1] = "Error interno"
        /\ call.res.log_fallo =>
               /\ call.res.excepcion = ""
               /\ Resultado.errores_validacion = <<>>
               /\ Resultado.reporte_explicacion # ""
               /\ total_evaluaciones = 1
               /\ log = <<>>

\* a fired rule without its id makes apply_rules raise
C7_Witness ==
    /\ call.op = "evaluate"
    /\ call.res.excepcion = "apply_rules"
    /\ Len(Resultado.errores_validacion) = 1

\* C7 as stated: a failure in any step, the log write included, gives
\* RECHAZADO with score 0 and exactly one error
C7_Original ==
    (call.op = "evaluate" /\ (call.res.excepcion # "" \/ call.res.log_fallo)) =>
        /\ Resultado.dictamen = "RECHAZADO"
        /\ Resultado.score_final = 0
        /\ Len(Resultado.errores_validacion) = 1

\* the fields C8 names
Decision(resultado) ==
    <<resultado.dti_ratio, resultado.dti_clasificacion, resultado.sub_scores,
      resultado.score_final, resultado.umbral_aplicado, resultado.dictamen,
      resultado.reglas_activadas, resultado.errores_validacion>>

\* C8: evaluate is deterministic and history-independent: a call with the
\* input of the evaluate call before it returns the same DTI ratio and class,
\* sub-scores, score, threshold, decision, fired rules and errors, whatever
\* the counters hold, also when a new engine was built or the log became
\* unwritable in between.
C8_Determinismo ==
    [][(call.op = "evaluate" /\ call'.op = "evaluate" /\ call'.arg = call.arg)
           => Decision(call'.res.resultado) = Decision(call.res.resultado)]_vars

\* the same applicant evaluated by an engine and then by its successor: two
\* equal log lines, one evaluation counted
C8_Witness ==
    /\ call.op = "evaluate"
    /\ Len(log) = 2
    /\ log[1] = log[2]
    /\ total_evaluaciones = 1
    /\ Resultado.errores_validacion = <<>>

\* C9: evaluate_batch(L) returns a list as long as L whose element i is the
\* result of evaluating L[i], tagged indice = i (from 0), for every L: the
\* empty list gives the empty list, and a record with errors yields its error
\* result at its own position without stopping the loop.
C9_BatchOrdenado ==
    call.op = "evaluate_batch" =>
        /\ Len(call.res) = Len(call.arg)
        /\ \A i \in 1..Len(call.arg) :
               /\ call.res[i].indice = i - 1
               /\ Decision(call.res[i].res) =
                      Decision(evaluate(MotorInicial, reglas, call.arg[i], FALSE).res)
               /\ Completo(call.res[i].res)

\* a batch whose first record is invalid and whose second is accepted
C9_Witness ==
    /\ call.op = "evaluate_batch"
    /\ Len(call.arg) = 2
    /\ call.res[1].res.errores_validacion # <<>>
    /\ call.res[2].res.errores_validacion = <<>>
    /\ call.res[2].indice = 1

\* the constraints of groups C and D that datos violates, by code
Violadas(datos, d002_d003_sin_ingreso) ==
    LET n(campo) == datos[campo].n
        h(campo) == n(campo) * Pow10(2 - Escala(datos[campo]))
    IN  {cod \in {"C001", "C002", "C003", "C004", "C005", "C006", "C007", "C008",
                  "C009", "D001", "D002", "D003"} :
            CASE cod = "C001" -> n("edad") < 18 \/ n("edad") > 99
              [] cod = "C002" -> h("ingreso_mensual") <= 0
              [] cod = "C003" -> h("total_deuda_actual") < 0
              [] cod = "C004" -> n("historial_crediticio") \notin {0, 1, 2}
              [] cod = "C005" -> n("antiguedad_laboral") < 0
                                 \/ n("antiguedad_laboral") > 40
              [] cod = "C006" -> n("numero_dependientes") < 0
                                 \/ n("numero_dependientes") > 10
              [] cod = "C007" -> datos["tipo_vivienda"].s
                                     \notin {Propia, Familiar, Rentada}
              [] cod = "C008" -> datos["proposito_credito"].s
                                     \notin {Negocio, Educacion, Consumo,
                                            Emergencia, Vacaciones}
              [] cod = "C009" -> h("monto_credito") < 50000
                                 \/ h("monto_credito") > 5000000
              [] cod = "D001" -> n("antiguedad_laboral") > n("edad") - 15
              [] cod = "D002" -> /\ d002_d003_sin_ingreso \/ h("ingreso_mensual") > 0
                                 /\ h("total_deuda_actual")
                                        > h("ingreso_mensual") * 24
              [] OTHER -> /\ d002_d003_sin_ingreso \/ h("ingreso_mensual") > 0
                          /\ h("monto_credito") > h("ingreso_mensual") * 18}

Reportadas(errores) == {errores[i][1] : i \in 1..Len(errores)}

\* the nine fields are present and each holds a value of its type
BienTipado(datos) ==
    /\ Rango(CAMPOS_REQUERIDOS) \subseteq DOMAIN datos
    /\ \A c \in Rango(CAMPOS_ENTEROS) : IsInt(datos[c])
    /\ \A c \in Rango(CAMPOS_NUMERICOS) : IsNum(datos[c])
    /\ \A c \in Rango(CAMPOS_TEXTO) : IsStr(datos[c])

MalTipados(datos) ==
    {c \in Rango(CAMPOS_ENTEROS) \cap DOMAIN datos :
        ~IsNone(datos[c]) /\ ~IsInt(datos[c])}
    \cup {c \in Rango(CAMPOS_NUMERICOS) \cap DOMAIN datos :
        ~IsNone(datos[c]) /\ ~IsNum(datos[c])}
    \cup {c \in Rango(CAMPOS_TEXTO) \cap DOMAIN datos :
        ~IsNone(datos[c]) /\ ~IsStr(datos[c])}

Faltantes(datos) == Rango(CAMPOS_REQUERIDOS) \ DOMAIN datos

\* the group of an error: 1 for A, 2 for B, 3 for C, 4 for D
Grupo(error) ==
    CASE error[1] = "A001" -> 1
      [] error[1] \in {"B001", "B002", "B003"} -> 2
      [] error[1] \in {"D001", "D002", "D003"} -> 4
      [] OTHER -> 3

\* C11: validate reports its groups in the order A, B, C, D with two
\* cut-offs: with a required field missing it returns only the missing-field
\* errors, one per missing field (9 for the empty input); otherwise with a
\* field of the wrong type it returns one type error per such field and no
\* range or coherence error; range and coherence errors appear only for
\* complete input without a wrongly typed field.
C11_OrdenYCortes ==
    call.op = "validate" =>
        LET datos == call.arg
            errores == call.res.errores
            campos(g) == {errores[i][2] : i \in {j \in 1..Len(errores) :
                                                     Grupo(errores[j]) = g}}
            grupos == {Grupo(errores[i]) : i \in 1..Len(errores)}
        IN  /\ \A i, j \in 1..Len(errores) :
                   i < j => Grupo(errores[i]) <= Grupo(errores[j])
            /\ Faltantes(datos) # {} =>
                   /\ grupos = {1}
                   /\ campos(1) = Faltantes(datos)
                   /\ Len(errores) = Cardinality(Faltantes(datos))
                   /\ ~call.res.valido
            /\ (Faltantes(datos) = {} /\ MalTipados(datos) # {}) =>
                   /\ grupos = {2}
                   /\ campos(2) = MalTipados(datos)
                   /\ Len(errores) = Cardinality(MalTipados(datos))
                   /\ ~call.res.valido
            /\ (Faltantes(datos) = {} /\ MalTipados(datos) = {}) =>
                   grupos \subseteq {3, 4}
            /\ datos = DATOS_VACIOS => Len(errores) = 9

\* a complete record with a wrongly typed field and another field out of
\* range: only the type error is returned
C11_Witness ==
    /\ call.op = "validate"
    /\ Faltantes(call.arg) = {}
    /\ call.arg["edad"] = IntV(150)
    /\ MalTipados(call.arg) = {"tipo_vivienda"}
    /\ Len(call.res.errores) = 1

\* the result of sanitize holds, for every field whose value was not brought
\* to the type of the field, the value the caller gave
SinCoercionIntacto(datos, limpio) ==
    /\ \A c \in DOMAIN datos \cap Rango(CAMPOS_ENTEROS) :
           ~IsInt(limpio[c]) => limpio[c] = datos[c]
    /\ \A c \in DOMAIN datos \cap Rango(CAMPOS_NUMERICOS) :
           ~IsFloat(limpio[c]) => limpio[c] = datos[c]

\* C12: sanitize never raises, for any input mapping and any field value
\* (strings, integers, finite and non-finite floats, None, other objects); a
\* value that cannot be coerced to the type of its field is returned
\* unchanged, and the caller's mapping is not modified.
C12_SanitizeNuncaFalla ==
    call.op = "sanitize" =>
        /\ ~call.res.raises
        /\ DOMAIN call.res.limpio = DOMAIN call.arg
        /\ SinCoercionIntacto(call.arg, call.res.limpio)
        /\ call.res.datos = call.arg

\* nan given as the age: _a_entero evaluates int(nan)
C12_Witness ==
    /\ call.op = "sanitize"
    /\ call.arg = [DATOS_SANITIZAR EXCEPT !["edad"] = NanV]
    /\ call.res.raises

\* a step of the session that is a call of op: the steps that are no call
\* build a new engine or change the permissions of the log file
PasoDe(op) ==
    /\ call'.op = op
    /\ log_escribible' = log_escribible
    /\ ~NewEngine

\* the counters grow by the error-free results among resultados, each
\* decision counter by the results with its dictamen
Cuenta(resultados) ==
    LET buenos == {i \in 1..Len(resultados) :
                      resultados[i].errores_validacion = <<>>}
        con(dictamen) == Cardinality({i \in buenos :
                                         resultados[i].dictamen = dictamen})
    IN  /\ total_evaluaciones' = total_evaluaciones + Cardinality(buenos)
        /\ aprobados' = aprobados + con("APROBADO")
        /\ rechazados' = rechazados + con("RECHAZADO")
        /\ revision_manual' = revision_manual + con("REVISION_MANUAL")

\* C13: on one engine the stats snapshot always has total_evaluaciones =
\* aprobados + rechazados + revision_manual; every evaluate and evaluate_batch
\* call adds to total_evaluaciones the number of error-free results it
\* returned and to each decision counter the number of those with that
\* dictamen, so a result with errors changes no counter; and no counter
\* decreases while the engine lives.
C13_Contadores ==
    /\ [](/\ stats(Motor).total_evaluaciones =
              stats(Motor).aprobados + stats(Motor).rechazados
              + stats(Motor).revision_manual
          /\ stats(Motor).total_evaluaciones = total_evaluaciones)
    /\ [][/\ PasoDe("evaluate") => Cuenta(<<call'.res.resultado>>)
          /\ PasoDe("evaluate_batch") =>
                 Cuenta([i \in 1..Len(call'.res) |-> call'.res[i].res])
          /\ ~NewEngine =>
                 /\ total_evaluaciones' >= total_evaluaciones
                 /\ aprobados' >= aprobados
                 /\ rechazados' >= rechazados
                 /\ revision_manual' >= revision_manual]_vars

\* an evaluation that returned errors after an approved one: one evaluation
\* counted
C13_Witness ==
    /\ call.op = "evaluate"
    /\ Resultado.errores_validacion # <<>>
    /\ total_evaluaciones = 1
    /\ aprobados = 1

\* the log grows by one line per error-free result among resultados, in
\* their order, each line with the decision and the score of its result
Registra(resultados) ==
    LET buenos == SelectSeq(resultados, LAMBDA r : r.errores_validacion = <<>>)
    IN  /\ Len(log') = Len(log) + Len(buenos)
        /\ \A i \in 1..Len(buenos) :
               /\ log'[Len(log) + i].dictamen = buenos[i].dictamen
               /\ log'[Len(log) + i].score = buenos[i].score_final

\* C14 (amended): the log is append-only: no step changes or removes a line
\* written before.  With the log writable, an evaluate call that returns an
\* error-free result appends exactly one line, and an evaluate call that
\* returns errors (invalid input or an internal error) appends none; the
\* lines of a batch are appended in the order of its records.  With the log
\* unwritable nothing is appended.
C14_LogSoloCrece ==
    [][/\ Len(log') >= Len(log)
       /\ SubSeq(log', 1, Len(log)) = log
       /\ PasoDe("evaluate") =>
              IF log_escribible THEN Registra(<<call'.res.resultado>>)
              ELSE log' = log
       /\ PasoDe("evaluate_batch") =>
              IF log_escribible
              THEN Registra([i \in 1..Len(call'.res) |-> call'.res[i].res])
              ELSE log' = log]_vars

\* two evaluations with different decisions, logged in call order
C14_Witness ==
    /\ call.op = "evaluate"
    /\ Len(log) = 2
    /\ log[1].dictamen = "APROBADO"
    /\ log[2].dictamen = "RECHAZADO"
    /\ Resultado.dictamen = "RECHAZADO"
    /\ Resultado.errores_validacion = <<>>

\* C14 as stated: with the log writable every evaluate call appends exactly
\* one line
C14_Original ==
    [][(PasoDe("evaluate") /\ log_escribible) =>
           Len(log') = Len(log) + 1]_vars

\* thread h has stored the sum of statement k of _actualizar_stats
Hecha(h, k) ==
    /\ hilos[h].pc \in {"leer", "escribir", "fin"}
    /\ hilos[h].resultado.errores_validacion = <<>>
    /\ hilos[h].pc = "fin" \/ hilos[h].k > k

\* the attribute statement k of thread h adds to
CampoDe(h, k) == sentencias_stats(hilos[h].resultado)[k]

\* both threads have returned from evaluate with an error-free result
AmbasCompletas ==
    \A h \in Hilos : hilos[h].pc = "fin"
                        /\ hilos[h].resultado.errores_validacion = <<>>

\* C15: the counters are not safe when two threads call evaluate on the
\* shared engine.  Whenever the two calls have read the same value of an
\* attribute before either stored its sum, one of the two updates is lost:
\* total_evaluaciones and the decision counter end one above the value
\* read, and suma_scores holds the score of one call only.  A counter is
\* never above the number of calls that stored to it, and calls whose
\* statements do not overlap lose nothing.
C15_ActualizacionPerdida ==
    /\ \A h, g \in Hilos : \A k \in 1..4 :
           (/\ h # g
            /\ Hecha(h, k) /\ Hecha(g, k)
            /\ CampoDe(h, k) = CampoDe(g, k)
            /\ CampoDe(h, k) # "suma_dti") =>
               IF hilos[h].leidos[k] = hilos[g].leidos[k]
               THEN Motor[CampoDe(h, k)] \in
                        {hilos[h].leidos[k]
                           + (IF k = 2 THEN hilos[j].resultado.score_final
                              ELSE 1) : j \in Hilos}
               ELSE Motor[CampoDe(h, k)] =
                        (IF k = 2
                         THEN hilos[h].resultado.score_final
                              + hilos[g].resultado.score_final
                         ELSE 2)
    /\ total_evaluaciones <= Cardinality({h \in Hilos : Hecha(h, 1)})
    /\ aprobados + rechazados + revision_manual
         <= Cardinality({h \in Hilos : Hecha(h, 4)})

\* both calls completed error-free and total_evaluaciones is 1
C15_Witness ==
    /\ AmbasCompletas
    /\ total_evaluaciones = 1

\* the operators _comparar knows
OPERADORES == {"==", "!=", ">", ">=", "<", "<="}

\* a rule with every key its kind needs and a known kind and operator
BienFormada(regla) ==
    /\ {"id", "impacto_puntos", "descripcion", "tipo"} \subseteq DOMAIN regla
    /\ regla.tipo \in {"directa", "compensacion"}
    /\ regla.tipo = "directa" =>
          /\ {"condicion_campo", "condicion_operador", "condicion_valor"}
                \subseteq DOMAIN regla
          /\ regla.condicion_operador \in OPERADORES
    /\ regla.tipo = "compensacion" =>
          /\ "condiciones" \in DOMAIN regla
          /\ \A i \in 1..Len(regla.condiciones) :
                 LET cond == regla.condiciones[i]
                 IN  /\ {"campo", "operador"} \subseteq DOMAIN cond
                     /\ cond.operador \in OPERADORES
                     /\ \/ "valor" \in DOMAIN cond
                        \/ "campo_referencia" \in DOMAIN cond

\* the rules apply_rules is to look at: active and well formed
Aplicables(rs) ==
    SelectSeq(rs, LAMBDA regla :
                      /\ "activa" \in DOMAIN regla
                      /\ regla.activa
                      /\ BienFormada(regla))

\* C16 as stated: apply_rules skips every inactive or malformed rule: it
\* never raises, its fired list is the one the active well-formed rules
\* alone give, no evaluation of valid data ends in an internal error of
\* apply_rules, and no call changes the loaded rule set.
C16_SaltaMalformadas ==
    /\ [](/\ call.op = "apply_rules" =>
              /\ ~call.res.raises
              /\ call.res.activadas =
                     apply_rules(Aplicables(reglas), call.arg.datos,
                                 call.arg.dti).activadas
          /\ call.op = "evaluate" => call.res.excepcion # "apply_rules")
    /\ [][reglas' = reglas]_vars

\* apply_rules raises on a profile that meets the condition of an active
\* rule without an id
C16_Witness ==
    /\ call.op = "apply_rules"
    /\ call.res.raises
    /\ call.arg.datos = EDAD_60
    /\ reglas = REGLAS_EXTREMAS

\* the profile apply_rules was called with, extended with the dti
DatosExt ==
    [c \in DOMAIN call.arg.datos \cup {"dti"} |->
        IF c = "dti" THEN call.arg.dti ELSE call.arg.datos[c]]

\* a condition of a well-formed compensation rule holds: the field is
\* present and compares as the operator says with the literal valor, or
\* with the referenced field times the factor (1.0 when none is given)
Cumple(cond) ==
    /\ cond.campo \in DOMAIN DatosExt
    /\ ~IsNone(DatosExt[cond.campo])
    /\ IF "campo_referencia" \in DOMAIN cond
       THEN /\ cond.campo_referencia \in DOMAIN DatosExt
            /\ ~IsNone(DatosExt[cond.campo_referencia])
            /\ LET ref == DatosExt[cond.campo_referencia]
                   factor == IF "factor" \in DOMAIN cond THEN cond.factor
                             ELSE FloatV(100)
               IN  /\ ~producto_raises(ref, factor)
                   /\ comparar(DatosExt[cond.campo], cond.operador,
                               producto(ref, factor))
       ELSE comparar(DatosExt[cond.campo], cond.operador, cond.valor)

\* the positions of the active well-formed compensation rules, and of
\* those whose conditions all hold
Compensaciones ==
    {i \in 1..Len(reglas) :
        /\ "activa" \in DOMAIN reglas[i]
        /\ reglas[i].activa
        /\ BienFormada(reglas[i])
        /\ reglas[i].tipo = "compensacion"}

DebenActivarse ==
    {i \in Compensaciones :
        /\ reglas[i].condiciones # <<>>
        /\ \A j \in 1..Len(reglas[i].condiciones) :
               Cumple(reglas[i].condiciones[j])}

\* the position in the rule set of the rule a fired entry names
Posicion(e) ==
    CHOOSE i \in 1..Len(reglas) : "id" \in DOMAIN reglas[i] /\ reglas[i].id = e.id

\* C17: in the list apply_rules returns, an active well-formed
\* compensation rule is recorded iff its condition list is non-empty and
\* every condition holds (against the literal valor, or the referenced
\* field times its factor; never on an absent field).  Every entry of the
\* list is recorded once, the entries are in rule-set order, and each
\* carries the id, signed impact, description and kind of its rule.
C17_Compensacion ==
    (call.op = "apply_rules" /\ ~call.res.raises) =>
        LET activadas == call.res.activadas
        IN  /\ \A i \in Compensaciones :
                   (i \in DebenActivarse) <=>
                       \E j \in 1..Len(activadas) :
                           activadas[j].id = reglas[i].id
            /\ \A j \in 1..Len(activadas) :
                   LET regla == reglas[Posicion(activadas[j])]
                   IN  /\ activadas[j].impacto = regla.impacto_puntos
                       /\ activadas[j].descripcion = regla.descripcion
                       /\ activadas[j].tipo = GetDef(regla, "tipo", "directa")
                       /\ {"id", "impacto", "descripcion", "tipo"}
                             \subseteq DOMAIN activadas[j]
            /\ \A j, k \in 1..Len(activadas) :
                   j < k => Posicion(activadas[j]) < Posicion(activadas[k])

\* the two compensations of the base rule set: R015 recorded on the profile
\* whose amount is within half the income, R011 not, after R001 and R005
C17_Witness ==
    /\ call.op = "apply_rules"
    /\ reglas = REGLAS_BASE
    /\ call.arg.datos = DATOS_R015
    /\ ~call.res.raises
    /\ Len(call.res.activadas) = 3
    /\ call.res.activadas[3] =
          [id |-> "R015", impacto |-> IntV(5), descripcion |-> "R015",
           tipo |-> "compensacion"]

\* a rules file that is missing or malformed: unreadable, invalid JSON, or
\* JSON that is not an object whose "reglas" is a list of objects
Malformado(archivo) ==
    ~(/\ archivo.clase = "json"
      /\ archivo.data.tipo = "dict"
      /\ "reglas" \in archivo.data.claves
      /\ archivo.data.reglas.tipo = "lista"
      /\ \A i \in 1..Len(archivo.data.reglas.items) :
             es_dict(archivo.data.reglas.items[i]))

\* C18 as stated: building the engine never aborts because of the rules
\* file; over a missing or malformed file the engine is built with an
\* empty rule set, and the evaluation that follows ends with no fired
\* rules and no internal error of apply_rules.
C18_ConstruccionNuncaAborta ==
    /\ [](call.op = "construir" =>
             /\ ~call.res.raises
             /\ Malformado(call.arg) => reglas = <<>>)
    /\ [][(call.op = "construir" /\ Malformado(call.arg)
            /\ call'.op = "evaluate") =>
              /\ call'.res.resultado.reglas_activadas = <<>>
              /\ call'.res.excepcion # "apply_rules"]_vars

\* the constructor raised over a rules file that holds a JSON list
C18_Witness ==
    /\ call.op = "construir"
    /\ call.res.raises
    /\ call.arg = [clase |-> "json", data |-> JLista(REGLAS_BASE)]

\* the four cells of a matrix are counts and add up to n, the matrix's total
SumaN(cm, n) ==
    /\ \A c \in {"VP", "FP", "VN", "FN"} : cm[c] \in Nat
    /\ cm.VP + cm.FP + cm.VN + cm.FN = n
    /\ cm.total = n

\* C19: for label vectors of equal length N, confusion_matrix_data gives
\* four non-negative counts with VP + FP + VN + FN = N and total = N; so
\* does the matrix calculate_all computes at each candidate threshold of
\* the sweep.
C19_MatrizSumaN ==
    /\ call.op = "confusion_matrix_data" => SumaN(call.res, Len(call.arg.y_real))
    /\ call.op = "analizar_umbrales" =>
          \A k \in 1..Len(umbrales_test) :
              SumaN(call.res.por_umbral[k].matriz, Len(call.arg.y_real))

\* the matrix of a three-case call with a false negative and a true positive
C19_Witness ==
    /\ call.op = "confusion_matrix_data"
    /\ call.arg.y_real = <<1, 1, 0>>
    /\ call.arg.y_pred = <<0, 1, 0>>
    /\ call.res = [VP |-> 1, FP |-> 0, VN |-> 1, FN |-> 1, total |-> 3]

\* C20 as stated: for every analysis and every loaded weight configuration
\* propose_adjustments returns weights pesos_nuevos that add up to 1.0
\* within 0.001.
C20_PesosSumanUno ==
    call.op = "propose_adjustments" =>
        /\ ~call.res.raises
        /\ SumaPesos(call.res.pesos_nuevos) >= 10000 - 10
        /\ SumaPesos(call.res.pesos_nuevos) <= 10000 + 10

\* with no weights loaded propose_adjustments raises on the empty analysis
C20_Witness ==
    /\ call.op = "propose_adjustments"
    /\ call.arg.weights = SIN_PESOS
    /\ call.arg.analisis.variables_criticas = <<>>
    /\ call.res.raises

\* C21: whenever propose_adjustments returns, umbral_propuesto differs from
\* umbral_actual (80) by at most 3 points, whichever candidate of the sweep
\* the analysis carries (or none); and every candidate the sweep of
\* _analizar_umbrales reports is one of umbrales_test.
C21_UmbralLimitado ==
    /\ (call.op = "propose_adjustments" /\ ~call.res.raises) =>
          /\ call.res.umbral_actual = 80
          /\ call.res.umbral_propuesto - call.res.umbral_actual \in (0 - 3)..3
    /\ call.op = "analizar_umbrales" =>
          \E k \in 1..Len(umbrales_test) :
              call.res.umbral_optimo_costo = umbrales_test[k]

\* the sweep's candidate 90 is proposed as 83
C21_Witness ==
    /\ call.op = "propose_adjustments"
    /\ ~call.res.raises
    /\ call.arg.analisis.tiene_umbral
    /\ call.arg.analisis.umbral_optimo_costo = 90
    /\ call.res.umbral_propuesto = 83

\* the asymmetric cost of a matrix times its total: 4 FP + FN
CostoPorN(cm) == COSTO_FP * cm.FP + COSTO_FN * cm.FN

\* C22 as stated: simulate recommends APLICAR exactly when the asymmetric
\* cost (4 FP + FN) / N of the predictions after is strictly lower than
\* that of the predictions before on the same dataset, and MANTENER
\* otherwise.
C22_AplicarSiMenorCosto ==
    (call.op = "simulate" /\ ~call.res.raises) =>
        /\ call.res.metricas_antes.matriz.total
             = call.res.metricas_despues.matriz.total
        /\ call.res.recomendacion \in {"APLICAR", "MANTENER"}
        /\ call.res.recomendacion = "APLICAR" <=>
               CostoPorN(call.res.metricas_despues.matriz)
                 < CostoPorN(call.res.metricas_antes.matriz)

\* on the dataset of 10001 records the cost falls from 5001/10001 to
\* 5000/10001, both round to 0.5, and simulate recommends MANTENER
C22_Witness ==
    /\ call.op = "simulate"
    /\ call.arg.datos_mihac = DATOS_GRANDE
    /\ CostoPorN(call.res.metricas_antes.matriz) = 5001
    /\ CostoPorN(call.res.metricas_despues.matriz) = 5000
    /\ call.res.deltas.costo_asimetrico = 0
    /\ call.res.recomendacion = "MANTENER"

\* C29 as stated: with umbral_propuesto = 80 the predictions before (the
\* engine approved) and after (score_final >= 80) are the same vector, the
\* delta of the asymmetric cost is 0 and the recommendation is MANTENER.
C29_MismoClasificador ==
    (/\ call.op = "simulate"
     /\ ~call.res.raises
     /\ call.res.umbral_despues = 80) =>
        /\ call.res.y_pred_actual = call.res.y_pred_nuevo
        /\ call.res.deltas.costo_asimetrico = 0
        /\ call.res.recomendacion = "MANTENER"

\* a good payer who scores 82 on an amount over 20000: not approved by the
\* engine (threshold 85), approved by score >= 80, so APLICAR at 80
C29_Witness ==
    /\ call.op = "simulate"
    /\ call.arg.datos_mihac = <<PERFIL_82_MONTO_ALTO>>
    /\ call.arg.y_real = <<1>>
    /\ call.res.umbral_despues = 80
    /\ call.res.y_pred_actual = <<0>>
    /\ call.res.y_pred_nuevo = <<1>>
    /\ call.res.recomendacion = "APLICAR"

\* the manual metrics of the matrix cm agree within 0.001 with sklearn's on
\* the vectors the matrix was counted from
Coinciden(cm, y_real, y_pred) ==
    /\ Cerca(metricas_manuales(cm).precision, precision_score(y_real, y_pred))
    /\ Cerca(metricas_manuales(cm).recall, recall_score(y_real, y_pred))
    /\ Cerca(metricas_manuales(cm).f1_score, sklearn_f1(y_real, y_pred))

\* C28: for binary vectors of equal length, precision, recall and F1 from
\* the confusion counts (0 when a denominator is 0) agree within 0.001 with
\* the general computation, and the cross-check of calculate_all never
\* fails: not when called on its own, not at any candidate threshold of
\* the sweep, not in either call made by simulate.
C28_VerificacionCruzada ==
    /\ call.op = "calculate_all" =>
          /\ ~call.res.raises
          /\ Coinciden(call.res.matriz, call.arg.y_real, call.arg.y_pred)
    /\ call.op = "analizar_umbrales" =>
          /\ ~call.res.raises
          /\ \A k \in 1..Len(umbrales_test) : ~call.res.por_umbral[k].raises
    /\ call.op = "simulate" =>
          /\ ~call.res.raises
          /\ Coinciden(call.res.metricas_antes.matriz, call.arg.y_real,
                       call.res.y_pred_actual)
          /\ Coinciden(call.res.metricas_despues.matriz, call.arg.y_real,
                       call.res.y_pred_nuevo)

\* both labels present, so the cross-check runs, and nothing predicted
\* positive: precision and F1 are 0 by the guard on the denominator
C28_Witness ==
    /\ call.op = "calculate_all"
    /\ call.arg.y_real = <<1, 0>>
    /\ call.arg.y_pred = <<0, 0>>
    /\ call.res.precision = 0
    /\ call.res.f1_score = 0
    /\ ~call.res.raises

\* ------------------------------------------------------------------------
\* C24: every overwrite of weights.json by apply_weights called with
\* backup=True (the default) comes after the write, in the same call, of a
\* backup that holds the configuration file as it was before the call; when
\* the backup cannot be read or written the call raises and weights.json
\* is left unchanged.
C24_RespaldoAntes ==
    (call.op = "apply_weights" /\ call.arg.backup) =>
        /\ (\E k \in 1..Len(call.res.escrituras) : call.res.escrituras[k] = WEIGHTS) =>
               /\ call.res.escrituras = <<BACKUP, WEIGHTS>>
               /\ archivos[BACKUP] = call.arg.antes[WEIGHTS]
        /\ (\A k \in 1..Len(call.res.escrituras) : call.res.escrituras[k] # BACKUP) =>
               /\ call.res.raises
               /\ archivos = call.arg.antes

\* a call with backup that overwrote a well-formed weights.json
C24_Witness ==
    /\ call.op = "apply_weights"
    /\ call.arg.backup
    /\ ~call.res.raises
    /\ call.res.escrituras = <<BACKUP, WEIGHTS>>
    /\ archivos[WEIGHTS] # call.arg.antes[WEIGHTS]
    /\ archivos[BACKUP] = call.arg.antes[WEIGHTS]

\* C24 as stated: every overwrite of weights.json by apply_weights, with
\* or without backup, comes after the write of a backup of the file as it
\* was before the call.
C24_Original ==
    (call.op = "apply_weights" /\ (\E k \in 1..Len(call.res.escrituras) : call.res.escrituras[k] = WEIGHTS)) =>
        /\ call.res.escrituras = <<BACKUP, WEIGHTS>>
        /\ archivos[BACKUP] = call.arg.antes[WEIGHTS]

\* ------------------------------------------------------------------------
\* C25 as stated: after any sequence of apply_weights calls with backup,
\* the configuration that preceded each overwrite is still held by some
\* backup file.
C25_RespaldosDistintos ==
    \A k \in 1..Len(anteriores) :
        anteriores[k].backup =>
            \E n \in DOMAIN archivos \ {WEIGHTS} : archivos[n] = anteriores[k].config

\* two overwrites with backup, the first of the original configuration
C25_Witness ==
    /\ Len(anteriores) = 2
    /\ anteriores[1].backup
    /\ anteriores[2].backup
    /\ anteriores[1].config = Json(CONFIG_V1)
    /\ archivos[BACKUP] = anteriores[2].config
    /\ archivos[BACKUP] # anteriores[1].config

\* ------------------------------------------------------------------------
\* C26 as stated: while weights.json is missing or is not JSON, a
\* calibrator built on it completes analyze_errors and propose_adjustments
\* without raising, and the proposal contains no weight changes.
C26_DegradaSinFallar ==
    (/\ archivos[WEIGHTS].clase # "json"
     /\ call.op \in {"analyze_errors", "propose_adjustments"}) =>
        /\ ~call.res.raises
        /\ call.op = "propose_adjustments" => call.res.cambios_pesos = <<>>

\* propose_adjustments raised on a calibrator built without weights.json
C26_Witness ==
    /\ archivos[WEIGHTS] = Ausente
    /\ cal_weights = VACIO
    /\ call.op = "propose_adjustments"
    /\ call.res.raises

\* ------------------------------------------------------------------------
\* C23 as stated: in every run of the calibration pipeline, weights.json
\* is overwritten only after the user has approved the proposals.
C23_SoloTrasAprobacion ==
    [][archivos'[WEIGHTS] # archivos[WEIGHTS] => aprobacion]_vars

\* the pipeline ran to its end and overwrote weights.json, and nobody
\* approved
C23_Witness ==
    /\ main.pc = "fin"
    /\ call.op = "apply_weights"
    /\ Len(anteriores) = 1
    /\ archivos[WEIGHTS] # anteriores[1].config
    /\ ~aprobacion

\* ------------------------------------------------------------------------
\* C27: analyze_errors, propose_adjustments, simulate and generate_report
\* leave the files of the knowledge directory and the calibrator's loaded
\* weights as they were; a step that changes either is an apply_weights.
C27_SoloApplyEscribe ==
    [][call'.op # "apply_weights" =>
          (archivos' = archivos /\ cal_weights' = cal_weights)]_vars

\* propose_adjustments returned changed weights before any overwrite, and
\* the loaded weights are still those of weights.json
C27_Witness ==
    /\ call.op = "propose_adjustments"
    /\ ~call.res.raises
    /\ call.res.cambios_pesos # <<>>
    /\ call.res.pesos_nuevos # cal_weights.pesos
    /\ anteriores = <<>>
    /\ archivos[WEIGHTS].clase = "json"
    /\ cal_weights = archivos[WEIGHTS].data

\* ------------------------------------------------------------------------
\* C30 as stated: whenever evaluate returns a result with no validation
\* errors, each of the nine required fields of the sanitized input is
\* present, is not None, has the type of its group, and the range and
\* coherence checks find nothing.
C30_SoloRegistrosCompletos ==
    (call.op = "evaluate" /\ Resultado.errores_validacion = <<>>) =>
        /\ ~sanitize_raises(call.arg)
        /\ \A c \in Rango(CAMPOS_REQUERIDOS) :
               /\ c \in DOMAIN sanitize(call.arg)
               /\ ~IsNone(sanitize(call.arg)[c])
        /\ \A c \in Rango(CAMPOS_ENTEROS) : IsInt(sanitize(call.arg)[c])
        /\ \A c \in Rango(CAMPOS_NUMERICOS) : IsNum(sanitize(call.arg)[c])
        /\ \A c \in Rango(CAMPOS_TEXTO) : IsStr(sanitize(call.arg)[c])
        /\ validar_rangos(sanitize(call.arg)) = <<>>
        /\ validar_coherencia(sanitize(call.arg)) = <<>>

\* a record whose historial_crediticio is None was scored without errors
C30_Witness ==
    /\ call.op = "evaluate"
    /\ call.arg = HISTORIAL_NULO
    /\ IsNone(sanitize(call.arg).historial_crediticio)
    /\ Resultado.errores_validacion = <<>>
    /\ Resultado.score_final > 0
    /\ call.res.excepcion = ""

====
